---- MODULE Spec2Model ----
(***************************************************************************)
(* A model of the rs_ckydb storage engine: the tokenized containers        *)
(* (strings.rs, cky_map.rs), the cache (cache.rs), the store (store.rs),   *)
(* the file helpers (utils.rs) and the controller with its background      *)
(* vacuum thread (controller.rs).                                          *)
(*                                                                         *)
(* Strings are sequences of byte values, so that offsets, lengths,         *)
(* splitting and lexicographic comparison are computed as the code         *)
(* computes them.  Offsets are 0-based as in the source; a `usize` that    *)
(* wrapped below zero is kept as a negative integer and is treated as      *)
(* larger than every length.                                               *)
(*                                                                         *)
(* The fields of a record are written in the order in which their names    *)
(* first occur in this module, which is the order TLC keeps them in.       *)
(***************************************************************************)
EXTENDS Integers, Sequences, FiniteSets, TLC

\* ------------------------------------------------------------------------
\* constants.rs
\* ------------------------------------------------------------------------
\* "><?&(^#"
KEY_VALUE_SEPARATOR == <<62, 60, 63, 38, 40, 94, 35>>
KEY_VALUE_SEPARATOR_LENGTH == Len(KEY_VALUE_SEPARATOR)
\* "$%#@*&^&"
TOKEN_SEPARATOR == <<36, 37, 35, 64, 42, 38, 94, 38>>
TOKEN_SEPARATOR_LENGTH == Len(TOKEN_SEPARATOR)

\* ------------------------------------------------------------------------
\* Bounds of the model
\* ------------------------------------------------------------------------
\* user keys are the one-letter strings "a", "b", ...
NumKeys == 2
\* user values are "x" and a run of MaxValLen "y"s
MaxValLen == 6
\* the wall clock starts at StartClock and stops the model at MaxClock
StartClock == 10
MaxClock == 14
\* the number of calls and compaction cycles of a run
MaxOps == 5
\* the values of max_file_size_kb given to connect(), expressed in bytes
SmallFileSize == 20
LargeFileSize == 48
\* calls made while the vacuum thread runs
MaxCalls == 4
\* number_of_waits of the vacuum thread: vacuum_interval_sec in tenths
number_of_waits == 2
\* the keys of a CkyMap taken alone, and the number of calls made on it
NumMapKeys == 3
MaxMapOps == 4
\* the calls made on a CkyVector taken alone, and the indices given to them
MaxVecOps == 3
MaxVecIndex == 3

Keys == { <<96 + i>> : i \in 1..NumKeys }
Values == { <<120>>, [i \in 1..MaxValLen |-> 121] }
\* the values given to set while the vacuum thread runs
ThreadValues == { <<120>> }

\* ------------------------------------------------------------------------
\* Rust string primitives
\* ------------------------------------------------------------------------
\* &s[a..b]
Slice(s, a, b) == SubSeq(s, a + 1, b)

\* whether &s[a..b] is a valid range (otherwise the slice panics)
ValidSlice(s, a, b) == 0 <= a /\ a <= b /\ b <= Len(s)

\* str::starts_with
StartsWith(s, p) == Len(p) <= Len(s) /\ SubSeq(s, 1, Len(p)) = p

\* str::ends_with
EndsWith(s, p) == Len(p) <= Len(s) /\ SubSeq(s, Len(s) - Len(p) + 1, Len(s)) = p

\* str::trim_end_matches
RECURSIVE TrimEndMatches(_, _)
TrimEndMatches(s, p) ==
    IF EndsWith(s, p)
    THEN TrimEndMatches(SubSeq(s, 1, Len(s) - Len(p)), p)
    ELSE s

\* lexicographic byte order: a < b
RECURSIVE StrLt(_, _)
StrLt(a, b) ==
    IF b = <<>> THEN FALSE
    ELSE IF a = <<>> THEN TRUE
    ELSE IF Head(a) # Head(b) THEN Head(a) < Head(b)
    ELSE StrLt(Tail(a), Tail(b))

\* a <= b
StrLe(a, b) == a = b \/ StrLt(a, b)

\* str::split: the pieces as <<start, end>> byte ranges of s; p is the start
\* of the current piece, i the scan position
RECURSIVE SplitFrom(_, _, _, _)
SplitFrom(s, sep, p, i) ==
    IF i + Len(sep) > Len(s) THEN << <<p, Len(s)>> >>
    ELSE IF SubSeq(s, i + 1, i + Len(sep)) = sep
         THEN << <<p, i>> >> \o SplitFrom(s, sep, i + Len(sep), i + Len(sep))
         ELSE SplitFrom(s, sep, p, i + 1)

SplitRanges(s, sep) == SplitFrom(s, sep, 0, 0)

\* the pieces themselves
Split(s, sep) ==
    LET Pieces(r) == [i \in 1..Len(r) |-> Slice(s, r[i][1], r[i][2])]
    IN  Pieces(SplitRanges(s, sep))

\* String::replace_range(start..end, replacement)
ReplaceRange(s, start, end, replacement) ==
    SubSeq(s, 1, start) \o replacement \o SubSeq(s, end + 1, Len(s))

\* u128::to_string
RECURSIVE to_string(_)
to_string(n) ==
    IF n < 10 THEN <<48 + n>> ELSE to_string(n \div 10) \o <<48 + (n % 10)>>

\* sort() of a Vec<String>: the elements of a set of strings in increasing order
RECURSIVE SortStrings(_)
SortStrings(S) ==
    IF S = {} THEN <<>>
    ELSE LET m == CHOOSE x \in S : \A y \in S : StrLe(x, y)
         IN  <<m>> \o SortStrings(S \ {m})

\* the elements of a sequence
Range(f) == { f[i] : i \in DOMAIN f }

\* a map with one entry added or replaced
Put(f, k, v) == [x \in DOMAIN f \cup {k} |-> IF x = k THEN v ELSE f[x]]

\* a map with one entry removed
Drop(f, k) == [x \in DOMAIN f \ {k} |-> f[x]]

EmptyMap == [x \in {} |-> <<>>]

\* ------------------------------------------------------------------------
\* strings.rs: TokenizedString, the memtable
\*   t = [kv_string, offsets], offsets[i] = <<k_start, k_end, v_start, v_end>>
\* ------------------------------------------------------------------------
TokenizedStringDefault == [kv_string |-> <<>>, offsets |-> <<>>]

\* impl From<String> for TokenizedString
TokenizedStringFrom(s) ==
    LET Offsets(start, end, pair) ==
            IF Len(pair) = 1 THEN <<start, end, end, end>>
            ELSE IF Len(pair) = 2
                 THEN <<start + pair[1][1], start + pair[1][2],
                        start + pair[2][1], start + pair[2][2]>>
                 ELSE <<0, 0, 0, 0>>
        OffsetsOf(trimmed, r) ==
            Offsets(r[1], r[2],
                    SplitRanges(Slice(trimmed, r[1], r[2]), KEY_VALUE_SEPARATOR))
        Tokens(trimmed, toks) ==
            [kv_string |-> s,
             offsets |-> [i \in 1..Len(toks) |-> OffsetsOf(trimmed, toks[i])]]
        From(trimmed) ==
            IF trimmed = <<>>
            THEN [kv_string |-> s, offsets |-> <<>>]
            ELSE Tokens(trimmed, SplitRanges(trimmed, TOKEN_SEPARATOR))
    IN  From(TrimEndMatches(s, TOKEN_SEPARATOR))

\* whether both slices of offsets[i] are within kv_string
OffsetValid(t, i) ==
    /\ ValidSlice(t.kv_string, t.offsets[i][1], t.offsets[i][2])
    /\ ValidSlice(t.kv_string, t.offsets[i][3], t.offsets[i][4])

KeyAt(t, i) == Slice(t.kv_string, t.offsets[i][1], t.offsets[i][2])
ValueAt(t, i) == Slice(t.kv_string, t.offsets[i][3], t.offsets[i][4])

\* TokenizedString::map: panics when a slice is out of range; a later
\* offset entry overrides an earlier one with the same key
TokenizedStringMap(t) ==
    IF \E i \in 1..Len(t.offsets) : ~OffsetValid(t, i)
    THEN [status |-> "panic", map |-> EmptyMap]
    ELSE LET ks == { KeyAt(t, i) : i \in 1..Len(t.offsets) }
             Last(k) == CHOOSE i \in 1..Len(t.offsets) :
                            /\ KeyAt(t, i) = k
                            /\ \A j \in 1..Len(t.offsets) : KeyAt(t, j) = k => j <= i
         IN  [status |-> "ok", map |-> [k \in ks |-> ValueAt(t, Last(k))]]

\* TokenizedString::get
TokenizedStringGet(t, key) ==
    LET Lookup(m) ==
            IF m.status = "panic" THEN [status |-> "panic", value |-> <<>>]
            ELSE IF key \in DOMAIN m.map THEN [status |-> "ok", value |-> m.map[key]]
            ELSE [status |-> "notfound", value |-> <<>>]
    IN  Lookup(TokenizedStringMap(t))

\* the index of the first offset entry whose key slice equals key, 0 when
\* there is none, -1 when the scan panics on a key slice before finding one
FindKey(t, key) ==
    LET n == Len(t.offsets)
        KeyOk(i) == ValidSlice(t.kv_string, t.offsets[i][1], t.offsets[i][2])
        Hit(i) == KeyOk(i) /\ KeyAt(t, i) = key
        Stop(i) == ~KeyOk(i) \/ Hit(i)
    IN  IF \E i \in 1..n : Stop(i)
        THEN LET f == CHOOSE i \in 1..n : Stop(i) /\ \A j \in 1..(i - 1) : ~Stop(j)
             IN  IF Hit(f) THEN f ELSE -1
        ELSE 0

\* TokenizedString::___replace_kv_string_section
ReplaceKvStringSection(kv_string, start, end, replacement) ==
    IF end < 0 \/ end > Len(kv_string)
    THEN [kv_string |-> kv_string, status |-> "corrupted"]
    ELSE IF start < 0 \/ start > end
         THEN [kv_string |-> kv_string, status |-> "panic"]
         ELSE [kv_string |-> ReplaceRange(kv_string, start, end, replacement),
               status |-> "ok"]

\* TokenizedString::__replace_offset
ReplaceOffset(offsets, index, new) ==
    LET old_end == offsets[index][4]
        new_end == new[4]
        delta == old_end - new_end
    IN  [i \in 1..Len(offsets) |->
            IF i < index THEN offsets[i]
            ELSE IF i = index THEN new
            ELSE <<offsets[i][1] + delta, offsets[i][2] + delta,
                   offsets[i][3] + delta, offsets[i][4] + delta>>]

\* TokenizedString::__append_key_value
AppendKeyValue(t, key, value) ==
    LET k_start == Len(t.kv_string)
        k_end == k_start + Len(key)
        v_start == IF value = <<>> THEN k_end ELSE k_end + KEY_VALUE_SEPARATOR_LENGTH
        v_end == v_start + Len(value)
    IN  [kv_string |-> t.kv_string \o key \o KEY_VALUE_SEPARATOR \o value \o TOKEN_SEPARATOR,
         offsets |-> Append(t.offsets, <<k_start, k_end, v_start, v_end>>)]

\* TokenizedString::insert
TokenizedStringInsert(t, key, value) ==
    LET Replaced(i, o, r) ==
            IF r.status # "ok" THEN [t |-> t, status |-> r.status]
            ELSE [t |-> [kv_string |-> r.kv_string,
                         offsets |-> ReplaceOffset(t.offsets, i,
                                       <<o[1], o[2], o[3], o[3] + Len(value)>>)],
                  status |-> "ok"]
        Replace(i, o) ==
            Replaced(i, o, ReplaceKvStringSection(t.kv_string, o[3], o[4], value))
        At(i) ==
            IF i = -1 THEN [t |-> t, status |-> "panic"]
            ELSE IF i = 0 THEN [t |-> AppendKeyValue(t, key, value), status |-> "ok"]
            ELSE Replace(i, t.offsets[i])
    IN  At(FindKey(t, key))

\* TokenizedString::__remove_offset
RemoveOffset(offsets, index) ==
    LET delta == (offsets[index][4] + TOKEN_SEPARATOR_LENGTH) - offsets[index][1]
    IN  [i \in 1..(Len(offsets) - 1) |->
            IF i < index THEN offsets[i]
            ELSE <<offsets[i + 1][1] - delta, offsets[i + 1][2] - delta,
                   offsets[i + 1][3] - delta, offsets[i + 1][4] - delta>>]

\* TokenizedString::delete
TokenizedStringDelete(t, key) ==
    LET Removed(i, r) ==
            IF r.status # "ok" THEN [t |-> t, status |-> r.status]
            ELSE [t |-> [kv_string |-> r.kv_string,
                         offsets |-> RemoveOffset(t.offsets, i)],
                  status |-> "ok"]
        Remove(i, o) ==
            Removed(i, ReplaceKvStringSection(t.kv_string, o[1],
                                              o[4] + TOKEN_SEPARATOR_LENGTH, <<>>))
        At(i) ==
            IF i = -1 THEN [t |-> t, status |-> "panic"]
            ELSE IF i = 0 THEN [t |-> t, status |-> "notfound"]
            ELSE Remove(i, t.offsets[i])
    IN  At(FindKey(t, key))

\* ------------------------------------------------------------------------
\* cky_map.rs: CkyMap, the data of the cache
\*   m = [kv_string, offsets (key -> start), inner_map (key -> value)]
\* ------------------------------------------------------------------------
CkyMapDefault == [kv_string |-> <<>>, offsets |-> EmptyMap, inner_map |-> EmptyMap]

\* CkyMap::reload_from_str: tokens without exactly one key-value separator
\* are skipped, a later token overrides an earlier one with the same key
CkyMapFrom(content) ==
    LET Last(keys, good, k) ==
            CHOOSE i \in good : keys[i] = k /\ \A j \in good : keys[j] = k => j <= i
        Maps(toks, keys, vals, good) ==
            [kv_string |-> content,
             offsets |-> [k \in { keys[i] : i \in good } |->
                             toks[Last(keys, good, k)][1]],
             inner_map |-> [k \in { keys[i] : i \in good } |->
                               vals[Last(keys, good, k)]]]
        Piece(trimmed, tok, r) == Slice(trimmed, tok[1] + r[1], tok[1] + r[2])
        Pairs(trimmed, toks, pairs) ==
            Maps(toks,
                 [i \in 1..Len(toks) |->
                     IF Len(pairs[i]) = 2
                     THEN Piece(trimmed, toks[i], pairs[i][1]) ELSE <<>>],
                 [i \in 1..Len(toks) |->
                     IF Len(pairs[i]) = 2
                     THEN Piece(trimmed, toks[i], pairs[i][2]) ELSE <<>>],
                 { i \in 1..Len(toks) : Len(pairs[i]) = 2 })
        Tokens(trimmed, toks) ==
            Pairs(trimmed, toks,
                  [i \in 1..Len(toks) |->
                      SplitRanges(Slice(trimmed, toks[i][1], toks[i][2]),
                                  KEY_VALUE_SEPARATOR)])
        From(trimmed) ==
            IF trimmed = <<>>
            THEN [kv_string |-> content, offsets |-> EmptyMap, inner_map |-> EmptyMap]
            ELSE Tokens(trimmed, SplitRanges(trimmed, TOKEN_SEPARATOR))
    IN  From(TrimEndMatches(content, TOKEN_SEPARATOR))

\* CkyMap::get
CkyMapGet(m, key) ==
    IF key \in DOMAIN m.inner_map
    THEN [status |-> "ok", value |-> m.inner_map[key]]
    ELSE [status |-> "notfound", value |-> <<>>]

\* CkyMap::___replace_kv_string_section (start <= end always holds here)
CkyMapReplaceSection(kv_string, start, end, replacement) ==
    IF end > Len(kv_string)
    THEN [kv_string |-> kv_string, status |-> "corrupted"]
    ELSE [kv_string |-> ReplaceRange(kv_string, start, end, replacement), status |-> "ok"]

\* CkyMap::insert; old is the previous value of an existing key
CkyMapInsert(m, key, value) ==
    IF key \in DOMAIN m.inner_map
    THEN LET old_value == m.inner_map[key]
             m1 == [m EXCEPT !.inner_map = Put(m.inner_map, key, value)]
         IN  IF key \in DOMAIN m.offsets
             THEN LET start == m.offsets[key] + Len(key) + KEY_VALUE_SEPARATOR_LENGTH
                      end == start + Len(old_value)
                      r == CkyMapReplaceSection(m.kv_string, start, end, value)
                  IN  [m |-> [m1 EXCEPT !.kv_string = r.kv_string], status |-> r.status]
             ELSE [m |-> m1, status |-> "corrupted"]
    ELSE [m |-> [kv_string |-> m.kv_string \o key \o KEY_VALUE_SEPARATOR \o value
                                 \o TOKEN_SEPARATOR,
                 offsets |-> Put(m.offsets, key, Len(m.kv_string)),
                 inner_map |-> Put(m.inner_map, key, value)],
          status |-> "ok"]

\* CkyMap::delete
CkyMapDelete(m, key) ==
    IF key \in DOMAIN m.inner_map
    THEN LET value == m.inner_map[key]
             m1 == [m EXCEPT !.inner_map = Drop(m.inner_map, key)]
         IN  IF key \in DOMAIN m.offsets
             THEN LET start == m.offsets[key]
                      end == start + Len(key) + KEY_VALUE_SEPARATOR_LENGTH + Len(value)
                             + TOKEN_SEPARATOR_LENGTH
                      r == CkyMapReplaceSection(m.kv_string, start, end, <<>>)
                  IN  IF r.status = "ok"
                      THEN [m |-> [m1 EXCEPT !.kv_string = r.kv_string,
                                             !.offsets = Drop(m.offsets, key)],
                            status |-> "ok"]
                      ELSE [m |-> m1, status |-> "corrupted"]
             ELSE [m |-> m1, status |-> "corrupted"]
    ELSE [m |-> m, status |-> "notfound"]

\* ------------------------------------------------------------------------
\* cache.rs
\*   c = [data (a CkyMap), start, end]
\* ------------------------------------------------------------------------
\* Cache::new_empty: start = end = "0"
CacheNewEmpty == [start |-> <<48>>, end |-> <<48>>, data |-> CkyMapDefault]

\* Cache::new
CacheNew(content, start, end) == [start |-> start, end |-> end, data |-> CkyMapFrom(content)]

\* Cache::is_in_range
IsInRange(c, key) == StrLe(c.start, key) /\ StrLe(key, c.end)

\* ------------------------------------------------------------------------
\* utils.rs
\* ------------------------------------------------------------------------
\* utils::extract_tokens_from_str
extract_tokens_from_str(content) ==
    LET Tokens(trimmed) ==
            IF trimmed = <<>> THEN <<>> ELSE Split(trimmed, TOKEN_SEPARATOR)
    IN  Tokens(TrimEndMatches(content, TOKEN_SEPARATOR))

\* utils::has_any_of_prefixes
has_any_of_prefixes(phrase, prefixes) ==
    \E i \in DOMAIN prefixes : StartsWith(phrase, prefixes[i])

\* the fold of delete_key_values_from_file: every item followed by the
\* token separator
RECURSIVE JoinTokens(_)
JoinTokens(items) ==
    IF items = <<>> THEN <<>>
    ELSE Head(items) \o TOKEN_SEPARATOR \o JoinTokens(Tail(items))

\* utils::delete_key_values_from_file with the filter inverted
delete_key_values_from_file_keeping_deleted(content, keys_to_delete) ==
    LET kv_pair_strings == extract_tokens_from_str(content)
        prefixes_to_delete ==
            [i \in DOMAIN keys_to_delete |-> keys_to_delete[i] \o KEY_VALUE_SEPARATOR]
    IN  JoinTokens(SelectSeq(kv_pair_strings,
                             LAMBDA kv : has_any_of_prefixes(kv, prefixes_to_delete)))

\* utils::delete_key_values_from_file: the new content of a file
delete_key_values_from_file(content, keys_to_delete) ==
    LET kv_pair_strings == extract_tokens_from_str(content)
        prefixes_to_delete ==
            [i \in DOMAIN keys_to_delete |-> keys_to_delete[i] \o KEY_VALUE_SEPARATOR]
    IN  JoinTokens(SelectSeq(kv_pair_strings,
                             LAMBDA kv : ~has_any_of_prefixes(kv, prefixes_to_delete)))

\* utils::extract_key_values_from_str: an error when a token does not have
\* exactly one key-value separator
extract_key_values_from_str(content) ==
    LET Last(pairs, k) ==
            CHOOSE i \in DOMAIN pairs :
                pairs[i][1] = k /\ \A j \in DOMAIN pairs : pairs[j][1] = k => j <= i
        Pairs(pairs) ==
            IF \E i \in DOMAIN pairs : Len(pairs[i]) # 2
            THEN [status |-> "io_error", map |-> EmptyMap]
            ELSE [status |-> "ok",
                  map |-> [k \in { pairs[i][1] : i \in DOMAIN pairs } |->
                              pairs[Last(pairs, k)][2]]]
        Tokens(toks) ==
            Pairs([i \in DOMAIN toks |-> Split(toks[i], KEY_VALUE_SEPARATOR)])
    IN  Tokens(extract_tokens_from_str(content))

\* Vec::sort on strings (insertion into a sorted prefix)
RECURSIVE sort(_)
sort(q) ==
    IF q = <<>> THEN <<>>
    ELSE LET rest == sort(Tail(q))
             lo == SelectSeq(rest, LAMBDA x : StrLt(x, Head(q)))
             hi == SelectSeq(rest, LAMBDA x : ~StrLt(x, Head(q)))
         IN  lo \o <<Head(q)>> \o hi

\* ------------------------------------------------------------------------
\* store.rs.  A store state s is a record of the fields of Store
\* (index, memtable, cache, data_files, current_log_file,
\* current_log_file_path), of the files of the database folder
\* (index_file, del_file, log_files and cky_files: base name -> content)
\* and of the wall clock.  An operation returns [status, s] and possibly a
\* value; status "panic" is a Rust panic.
\* ------------------------------------------------------------------------
\* format!("{}-{}", timestamp, key)
TimestampedKey(timestamp, key) == timestamp \o <<45>> \o key

\* Store::new: the memory of a fresh Store over the files and clock of s
StoreNew(s) ==
    [s EXCEPT !.cache = CacheNewEmpty,
              !.memtable = TokenizedStringDefault,
              !.index = EmptyMap,
              !.data_files = <<>>,
              !.current_log_file = <<>>,
              !.current_log_file_path = <<>>]

\* Store::create_new_log_file (utils::get_current_timestamp_str reads the clock)
create_new_log_file(s) ==
    LET log_file_name == to_string(s.clock)
    IN  [s EXCEPT !.log_files = IF log_file_name \in DOMAIN s.log_files
                                THEN s.log_files
                                ELSE Put(s.log_files, log_file_name, <<>>),
                  !.current_log_file = log_file_name,
                  !.current_log_file_path = log_file_name,
                  !.clock = s.clock + 1]

\* Store::create_log_file_if_not_exists (the folder never holds two .log files)
create_log_file_if_not_exists(s) ==
    IF DOMAIN s.log_files # {}
    THEN [s EXCEPT !.current_log_file_path = CHOOSE f \in DOMAIN s.log_files : TRUE]
    ELSE create_new_log_file(s)

\* Store::get_keys_to_delete
get_keys_to_delete(s) == extract_tokens_from_str(s.del_file)

\* Store::unlocked_vacuum with only the "log" files in files_to_vacuum
unlocked_vacuum_of_log_files(s) ==
    LET Vacuumed(keys_to_delete) ==
            IF Len(keys_to_delete) = 0 THEN s
            ELSE [s EXCEPT
                    !.log_files = [f \in DOMAIN s.log_files |->
                        delete_key_values_from_file(s.log_files[f], keys_to_delete)],
                    !.del_file = <<>>]
    IN  Vacuumed(get_keys_to_delete(s))

\* Store::unlocked_vacuum
unlocked_vacuum(s) ==
    LET Vacuumed(keys_to_delete) ==
            IF Len(keys_to_delete) = 0 THEN s
            ELSE [s EXCEPT
                    !.log_files = [f \in DOMAIN s.log_files |->
                        delete_key_values_from_file(s.log_files[f], keys_to_delete)],
                    !.cky_files = [f \in DOMAIN s.cky_files |->
                        delete_key_values_from_file(s.cky_files[f], keys_to_delete)],
                    !.del_file = <<>>]
    IN  Vacuumed(get_keys_to_delete(s))

\* Store::load_file_props_from_disk without self.data_files.sort(), the
\* folder listing the newest file first
load_file_props_from_disk_unsorted(s) ==
    LET sorted == SortStrings(DOMAIN s.cky_files)
    IN  [s EXCEPT !.data_files = [i \in 1..Len(sorted) |-> sorted[Len(sorted) + 1 - i]],
                  !.current_log_file = IF DOMAIN s.log_files # {}
                                       THEN CHOOSE f \in DOMAIN s.log_files : TRUE
                                       ELSE s.current_log_file]

\* Store::load_file_props_from_disk
load_file_props_from_disk(s) ==
    [s EXCEPT !.data_files = SortStrings(DOMAIN s.cky_files),
              !.current_log_file = IF DOMAIN s.log_files # {}
                                   THEN CHOOSE f \in DOMAIN s.log_files : TRUE
                                   ELSE s.current_log_file]

\* Store::load with self.vacuum() as its last statement
StoreLoadVacuumingLast(s) ==
    LET Vacuumed(r) == [s |-> unlocked_vacuum(r.s), status |-> r.status]
        Loaded(s3, idx) ==
            IF idx.status # "ok" THEN [s |-> s3, status |-> "io_error"]
            ELSE [s |-> [s3 EXCEPT !.index = idx.map,
                                   !.memtable = TokenizedStringFrom(
                                       s3.log_files[s3.current_log_file_path])],
                  status |-> "ok"]
        WithProps(s3) == Loaded(s3, extract_key_values_from_str(s3.index_file))
    IN  Vacuumed(WithProps(load_file_props_from_disk(create_log_file_if_not_exists(s))))

\* Store::load (the folder, the index file and the del file exist in every
\* state of the model)
StoreLoad(s) ==
    LET Loaded(s3, idx) ==
            IF idx.status # "ok" THEN [s |-> s3, status |-> "io_error"]
            ELSE [s |-> [s3 EXCEPT !.index = idx.map,
                                   !.memtable = TokenizedStringFrom(
                                       s3.log_files[s3.current_log_file_path])],
                  status |-> "ok"]
        WithProps(s3) == Loaded(s3, extract_key_values_from_str(s3.index_file))
    IN  WithProps(load_file_props_from_disk(
                    unlocked_vacuum(create_log_file_if_not_exists(s))))

\* Store::get_timestamp_range_for_key: <<>> is None
get_timestamp_range_for_key(s, key) ==
    LET timestamps == Append(s.data_files, s.current_log_file)
        hits == { i \in 2..Len(timestamps) : StrLt(key, timestamps[i]) }
    IN  IF hits = {} THEN <<>>
        ELSE LET i == CHOOSE j \in hits : \A h \in hits : j <= h
             IN  <<timestamps[i - 1], timestamps[i]>>

\* Store::load_cache_containing_key
load_cache_containing_key(s, key) ==
    LET Load(range) ==
            IF range = <<>> THEN [s |-> s, status |-> "io_error"]
            ELSE IF range[1] \notin DOMAIN s.cky_files
            THEN [s |-> s, status |-> "io_error"]
            ELSE [s |-> [s EXCEPT !.cache = CacheNew(s.cky_files[range[1]],
                                                     range[1], range[2])],
                  status |-> "ok"]
    IN  Load(get_timestamp_range_for_key(s, key))

\* Store::get_value_for_key loading the cache whether or not the key is in
\* its range
get_value_for_key_always_loading(s, timestamped_key) ==
    LET Found(g, s1) == [s |-> s1, status |-> g.status, value |-> g.value]
        Cached(l) ==
            IF l.status # "ok" THEN [s |-> l.s, status |-> "corrupted", value |-> <<>>]
            ELSE Found(CkyMapGet(l.s.cache.data, timestamped_key), l.s)
    IN  IF StrLe(s.current_log_file, timestamped_key)
        THEN Found(TokenizedStringGet(s.memtable, timestamped_key), s)
        ELSE Cached(load_cache_containing_key(s, timestamped_key))

\* Store::get_value_for_key
get_value_for_key(s, timestamped_key) ==
    LET Found(g, s1) == [s |-> s1, status |-> g.status, value |-> g.value]
        Cached(l) ==
            IF l.status # "ok" THEN [s |-> l.s, status |-> "corrupted", value |-> <<>>]
            ELSE Found(CkyMapGet(l.s.cache.data, timestamped_key), l.s)
    IN  IF StrLe(s.current_log_file, timestamped_key)
        THEN Found(TokenizedStringGet(s.memtable, timestamped_key), s)
        ELSE Cached(IF IsInRange(s.cache, timestamped_key)
                    THEN [s |-> s, status |-> "ok"]
                    ELSE load_cache_containing_key(s, timestamped_key))

\* Store::get: every error of get_value_for_key becomes CorruptedDataError
StoreGet(s, key) ==
    LET Result(r) ==
            IF r.status \in {"ok", "panic"} THEN r
            ELSE [s |-> r.s, status |-> "corrupted", value |-> <<>>]
    IN  IF key \notin DOMAIN s.index
        THEN [s |-> s, status |-> "notfound", value |-> <<>>]
        ELSE Result(get_value_for_key(s, s.index[key]))

\* Store::roll_log_file_if_too_big without the push to data_files
roll_log_file_forgetting_data_file(s) ==
    LET log_file_size == Len(s.log_files[s.current_log_file_path])
    IN  IF log_file_size >= s.max_file_size_kb
        THEN create_new_log_file(
               [s EXCEPT !.log_files = Drop(s.log_files, s.current_log_file_path),
                         !.cky_files = Put(s.cky_files, s.current_log_file,
                                           s.log_files[s.current_log_file_path]),
                         !.memtable = TokenizedStringDefault])
        ELSE s

\* Store::roll_log_file_if_too_big with > for >=
roll_log_file_if_bigger(s) ==
    LET log_file_size == Len(s.log_files[s.current_log_file_path])
    IN  IF log_file_size > s.max_file_size_kb
        THEN create_new_log_file(
               [s EXCEPT !.log_files = Drop(s.log_files, s.current_log_file_path),
                         !.cky_files = Put(s.cky_files, s.current_log_file,
                                           s.log_files[s.current_log_file_path]),
                         !.memtable = TokenizedStringDefault,
                         !.data_files = sort(Append(s.data_files, s.current_log_file))])
        ELSE s

\* Store::roll_log_file_if_too_big
roll_log_file_if_too_big(s) ==
    LET log_file_size == Len(s.log_files[s.current_log_file_path])
    IN  IF log_file_size >= s.max_file_size_kb
        THEN create_new_log_file(
               [s EXCEPT !.log_files = Drop(s.log_files, s.current_log_file_path),
                         !.cky_files = Put(s.cky_files, s.current_log_file,
                                           s.log_files[s.current_log_file_path]),
                         !.memtable = TokenizedStringDefault,
                         !.data_files = sort(Append(s.data_files, s.current_log_file))])
        ELSE s

\* Store::save_key_value_pair_to_memtable
save_key_value_pair_to_memtable(s, timestamped_key, value) ==
    LET Saved(r) ==
            IF r.status # "ok" THEN [s |-> s, status |-> r.status]
            ELSE [s |-> roll_log_file_if_too_big(
                          [s EXCEPT !.memtable = r.t,
                                    !.log_files = Put(s.log_files,
                                                      s.current_log_file_path,
                                                      r.t.kv_string)]),
                  status |-> "ok"]
    IN  Saved(TokenizedStringInsert(s.memtable, timestamped_key, value))

\* Store::persist_cache_to_disk
persist_cache_to_disk(s) ==
    [s EXCEPT !.cky_files = Put(s.cky_files, s.cache.start, s.cache.data.kv_string)]

\* Store::save_key_value_pair_to_cache
save_key_value_pair_to_cache(s, timestamped_key, value) ==
    LET Saved(r) ==
            IF r.status # "ok"
            THEN [s |-> [s EXCEPT !.cache.data = r.m], status |-> r.status]
            ELSE [s |-> persist_cache_to_disk([s EXCEPT !.cache.data = r.m]),
                  status |-> "ok"]
    IN  Saved(CkyMapInsert(s.cache.data, timestamped_key, value))

\* Store::save_key_value_pair: data is the payload of the error (<<>> is
\* None, <<v>> is Some(v))
save_key_value_pair(s, timestamped_key, value) ==
    LET InMemtable(old, r) ==
            IF old.status = "panic" THEN [s |-> s, status |-> "panic", data |-> <<>>]
            ELSE IF r.status = "panic" THEN [s |-> r.s, status |-> "panic", data |-> <<>>]
            ELSE IF r.status = "ok" THEN [s |-> r.s, status |-> "ok", data |-> <<>>]
            ELSE [s |-> r.s,
                  status |-> "corrupted",
                  data |-> IF old.status = "ok" THEN <<old.value>> ELSE <<>>]
        Saved(old, r) ==
            IF r.status = "ok"
            THEN [s |-> r.s, status |-> "ok", data |-> <<>>]
            ELSE [s |-> r.s, status |-> "corrupted", data |-> <<old.value>>]
        InCache(l, old) ==
            IF old.status # "ok"
            THEN [s |-> l.s, status |-> "notfound", data |-> <<timestamped_key>>]
            ELSE Saved(old, save_key_value_pair_to_cache(l.s, timestamped_key, value))
        Cached(l) ==
            IF l.status # "ok" THEN [s |-> l.s, status |-> "corrupted", data |-> <<>>]
            ELSE InCache(l, CkyMapGet(l.s.cache.data, timestamped_key))
    IN  IF StrLe(s.current_log_file, timestamped_key)
        THEN InMemtable(TokenizedStringGet(s.memtable, timestamped_key),
                        save_key_value_pair_to_memtable(s, timestamped_key, value))
        ELSE Cached(IF IsInRange(s.cache, timestamped_key)
                    THEN [s |-> s, status |-> "ok"]
                    ELSE load_cache_containing_key(s, timestamped_key))

\* Store::delete_key_value_pair_if_exists (its result is discarded by set)
delete_key_value_pair_if_exists(s, key) ==
    LET FromCache(r) ==
            IF r.status # "ok"
            THEN [s |-> [s EXCEPT !.cache.data = r.m], status |-> r.status]
            ELSE [s |-> persist_cache_to_disk([s EXCEPT !.cache.data = r.m]),
                  status |-> "ok"]
        FromMemtable(r) ==
            IF r.status # "ok" THEN [s |-> s, status |-> r.status]
            ELSE [s |-> [s EXCEPT !.memtable = r.t,
                                  !.log_files = Put(s.log_files,
                                                    s.current_log_file_path,
                                                    r.t.kv_string)],
                  status |-> "ok"]
    IN  IF IsInRange(s.cache, key)
        THEN FromCache(CkyMapDelete(s.cache.data, key))
        ELSE IF StrLe(s.current_log_file, key)
        THEN FromMemtable(TokenizedStringDelete(s.memtable, key))
        ELSE [s |-> s, status |-> "ok"]

\* Store::remove_timestamped_key_for_key_if_exists
remove_timestamped_key_for_key_if_exists(s, key) ==
    IF key \in DOMAIN s.index
    THEN [s EXCEPT !.index = Drop(s.index, key),
                   !.index_file = delete_key_values_from_file(s.index_file, <<key>>)]
    ELSE s

\* Store::get_timestamped_key without the lookup in the index
get_timestamped_key_always_new(s, key) ==
    LET timestamped_key == TimestampedKey(to_string(s.clock), key)
    IN  [s |-> [s EXCEPT !.clock = s.clock + 1,
                         !.index_file = s.index_file \o key \o KEY_VALUE_SEPARATOR
                                        \o timestamped_key \o TOKEN_SEPARATOR],
         timestamped_key |-> timestamped_key,
         is_new_key |-> TRUE]

\* Store::get_timestamped_key
get_timestamped_key(s, key) ==
    IF key \in DOMAIN s.index
    THEN [s |-> s, timestamped_key |-> s.index[key], is_new_key |-> FALSE]
    ELSE LET timestamped_key == TimestampedKey(to_string(s.clock), key)
         IN  [s |-> [s EXCEPT !.clock = s.clock + 1,
                              !.index_file = s.index_file \o key \o KEY_VALUE_SEPARATOR
                                             \o timestamped_key \o TOKEN_SEPARATOR],
              timestamped_key |-> timestamped_key,
              is_new_key |-> TRUE]

\* Store::set
StoreSet(s, key, value) ==
    LET Undone(r, d) ==
            IF d.status = "panic" THEN [s |-> d.s, status |-> "panic"]
            ELSE [s |-> remove_timestamped_key_for_key_if_exists(d.s, key),
                  status |-> r.status]
        Restored(r, u) ==
            IF u.status = "panic" THEN [s |-> u.s, status |-> "panic"]
            ELSE [s |-> u.s, status |-> r.status]
        Saved(t, r) ==
            IF r.status = "panic" THEN [s |-> r.s, status |-> "panic"]
            ELSE IF r.status # "ok"
            THEN IF t.is_new_key
                 THEN Undone(r, delete_key_value_pair_if_exists(r.s, t.timestamped_key))
                 ELSE IF r.data # <<>>
                 THEN Restored(r, save_key_value_pair(r.s, t.timestamped_key, r.data[1]))
                 ELSE [s |-> r.s, status |-> r.status]
            ELSE [s |-> IF t.is_new_key
                        THEN [r.s EXCEPT !.index = Put(r.s.index, key, t.timestamped_key)]
                        ELSE r.s,
                  status |-> "ok"]
        Keyed(t) == Saved(t, save_key_value_pair(t.s, t.timestamped_key, value))
    IN  Keyed(get_timestamped_key(s, key))

\* Store::set of a key that the index does not map, when fs::write of the
\* log file in save_key_value_pair_to_memtable returns an error: the pair is
\* in the memtable and not in the log file, save_key_value_pair returns
\* CorruptedDataError, and set undoes what it did as for any failure of a new key
StoreSetFailing(s, key, value) ==
    LET Undone(d) ==
            IF d.status = "panic" THEN [s |-> d.s, status |-> "panic"]
            ELSE [s |-> remove_timestamped_key_for_key_if_exists(d.s, key),
                  status |-> "corrupted"]
        Failed(t, old, r) ==
            IF old.status = "panic" \/ r.status = "panic"
            THEN [s |-> t.s, status |-> "panic"]
            ELSE Undone(delete_key_value_pair_if_exists(
                          [t.s EXCEPT !.memtable = r.t], t.timestamped_key))
        Keyed(t) ==
            Failed(t, TokenizedStringGet(t.s.memtable, t.timestamped_key),
                   TokenizedStringInsert(t.s.memtable, t.timestamped_key, value))
    IN  Keyed(get_timestamped_key(s, key))

\* Store::delete writing the files before it looks the key up in the index
StoreDeleteWritingFirst(s, key) ==
    IF key \notin DOMAIN s.index
    THEN [s |-> [s EXCEPT
                   !.index_file = delete_key_values_from_file(s.index_file, <<key>>),
                   !.del_file = s.del_file \o key \o TOKEN_SEPARATOR],
          status |-> "notfound"]
    ELSE [s |-> [s EXCEPT
                   !.index_file = delete_key_values_from_file(s.index_file, <<key>>),
                   !.del_file = s.del_file \o s.index[key] \o TOKEN_SEPARATOR,
                   !.index = Drop(s.index, key)],
          status |-> "ok"]

\* Store::delete taking the pair out of the memtable or the cache as well
StoreDeleteRemovingValue(s, key) ==
    IF key \notin DOMAIN s.index THEN [s |-> s, status |-> "notfound"]
    ELSE [s |-> [delete_key_value_pair_if_exists(s, s.index[key]).s EXCEPT
                   !.index_file = delete_key_values_from_file(s.index_file, <<key>>),
                   !.del_file = s.del_file \o s.index[key] \o TOKEN_SEPARATOR,
                   !.index = Drop(s.index, key)],
          status |-> "ok"]

\* Store::delete leaving the entry of the key in the index file
StoreDeleteKeepingIndexFile(s, key) ==
    IF key \notin DOMAIN s.index THEN [s |-> s, status |-> "notfound"]
    ELSE [s |-> [s EXCEPT
                   !.del_file = s.del_file \o s.index[key] \o TOKEN_SEPARATOR,
                   !.index = Drop(s.index, key)],
          status |-> "ok"]

\* Store::delete without self.index.remove(key)
StoreDeleteKeepingIndex(s, key) ==
    IF key \notin DOMAIN s.index THEN [s |-> s, status |-> "notfound"]
    ELSE [s |-> [s EXCEPT
                   !.index_file = delete_key_values_from_file(s.index_file, <<key>>),
                   !.del_file = s.del_file \o s.index[key] \o TOKEN_SEPARATOR],
          status |-> "ok"]

\* Store::delete
StoreDelete(s, key) ==
    IF key \notin DOMAIN s.index THEN [s |-> s, status |-> "notfound"]
    ELSE [s |-> [s EXCEPT
                   !.index_file = delete_key_values_from_file(s.index_file, <<key>>),
                   !.del_file = s.del_file \o s.index[key] \o TOKEN_SEPARATOR,
                   !.index = Drop(s.index, key)],
          status |-> "ok"]

\* Store::delete during which utils::append_to_file on the delete file
\* returns an error: the index file has been rewritten, and the ? returns
\* before self.index.remove(key)
StoreDeleteFailing(s, key) ==
    IF key \notin DOMAIN s.index THEN [s |-> s, status |-> "notfound"]
    ELSE [s |-> [s EXCEPT
                   !.index_file = delete_key_values_from_file(s.index_file, <<key>>)],
          status |-> "corrupted"]

\* Store::clear: index.clear(), clear_disk() and load()
StoreClear(s) ==
    StoreLoad([s EXCEPT !.index = EmptyMap,
                        !.index_file = <<>>,
                        !.del_file = <<>>,
                        !.log_files = EmptyMap,
                        !.cky_files = EmptyMap])

\* ------------------------------------------------------------------------
\* State
\* ------------------------------------------------------------------------
VARIABLES
    \* fields of the Store owned by Ckydb
    index, memtable, cache, data_files, current_log_file, current_log_file_path,
    \* files of the database folder
    index_file, del_file, log_files, cky_files,
    \* Store.max_file_size_kb, in bytes
    max_file_size_kb,
    \* the wall clock read by utils::get_current_timestamp_str
    clock,
    \* whether the process has panicked
    crashed,
    \* the last call of the user and what it returned
    last,
    \* number of segment rolls since the database was last empty, and whether
    \* only sets of new keys have been made since then
    rolls, only_new_sets,
    \* the keys deleted and not given to set since
    deleted,
    \* the value of the last successful set of every key not deleted since
    expected,
    \* what get returned for every key right before the last call
    before,
    \* number of calls and compaction cycles so far
    ops,
    \* fields of Ckydb: is_open, tasks (whether Some, and how many handles),
    \* the Stop signals queued on the channel tx -> rv, the holder of mut_lock
    is_open, tasks, chan, mut_lock,
    \* the holder of del_file_lock of the store of Ckydb and of shadow_store
    del_file_lock,
    \* the vacuum thread: where it is, its local wait, and the locals
    \* keys_to_delete and files_to_vacuum of the unlocked_vacuum it runs
    cpc, wait, keys_to_delete, files_to_vacuum,
    \* the thread of the caller: where it is and the call it is making
    upc, call

storeVars == <<index, memtable, cache, data_files, current_log_file,
               current_log_file_path>>
diskVars == <<index_file, del_file, log_files, cky_files>>
dataVars == <<storeVars, diskVars, max_file_size_kb, clock, crashed, last, rolls,
              only_new_sets, deleted, expected, before, ops>>
threadVars == <<is_open, tasks, chan, mut_lock, del_file_lock, cpc, wait,
                keys_to_delete, files_to_vacuum, upc, call>>
vars == <<dataVars, threadVars>>

\* the current store state as a record
Cur ==
    [index |-> index, cache |-> cache, memtable |-> memtable,
     data_files |-> data_files, current_log_file |-> current_log_file,
     current_log_file_path |-> current_log_file_path,
     clock |-> clock, log_files |-> log_files,
     del_file |-> del_file, cky_files |-> cky_files, index_file |-> index_file,
     max_file_size_kb |-> max_file_size_kb]

\* the state holds the store state s
Holds(s) ==
    /\ index = s.index
    /\ memtable = s.memtable
    /\ cache = s.cache
    /\ data_files = s.data_files
    /\ current_log_file = s.current_log_file
    /\ current_log_file_path = s.current_log_file_path
    /\ index_file = s.index_file
    /\ del_file = s.del_file
    /\ log_files = s.log_files
    /\ cky_files = s.cky_files
    /\ clock = s.clock

\* the next state holds the store state s
Becomes(s) ==
    /\ index' = s.index
    /\ memtable' = s.memtable
    /\ cache' = s.cache
    /\ data_files' = s.data_files
    /\ current_log_file' = s.current_log_file
    /\ current_log_file_path' = s.current_log_file_path
    /\ index_file' = s.index_file
    /\ del_file' = s.del_file
    /\ log_files' = s.log_files
    /\ cky_files' = s.cky_files
    /\ clock' = s.clock

\* an empty database folder and no Store yet
Blank(size) ==
    [index |-> EmptyMap, cache |-> CacheNewEmpty, memtable |-> TokenizedStringDefault,
     data_files |-> <<>>, current_log_file |-> <<>>, current_log_file_path |-> <<>>,
     clock |-> StartClock, log_files |-> EmptyMap, del_file |-> <<>>,
     cky_files |-> EmptyMap, index_file |-> <<>>, max_file_size_kb |-> size]

\* a returned call
Call(op, key, value, status, ret, is_new) ==
    [status |-> status, key |-> key, value |-> value, op |-> op, ret |-> ret,
     is_new |-> is_new]

\* what get(key) returns in the current state
GetResult(key) ==
    LET Result(r) == <<r.status, r.value>> IN Result(StoreGet(Cur, key))

\* the outcome of a call that panicked or returned
Outcome(r) ==
    /\ Becomes(r.s)
    /\ crashed' = (r.status = "panic")
    /\ before' = [k \in Keys |-> GetResult(k)]
    /\ ops' = ops + 1
    /\ UNCHANGED <<max_file_size_kb, threadVars>>

\* ------------------------------------------------------------------------
\* The engine driven by one caller, every call and every compaction cycle
\* of the vacuum thread taken as one step that runs to completion
\* ------------------------------------------------------------------------
\* Ckydb::new followed by Ckydb::open: the vacuum thread is spawned and no
\* call is being made
Connected ==
    /\ is_open = TRUE
    /\ tasks = [is_some |-> TRUE, handles |-> 1]
    /\ chan = 0
    /\ mut_lock = "free"
    /\ del_file_lock = [main |-> "free", shadow |-> "free"]
    /\ cpc = "recv"
    /\ wait = 0
    /\ keys_to_delete = <<>>
    /\ files_to_vacuum = {}
    /\ upc = "idle"
    /\ call = Call("connect", <<>>, <<>>, "ok", <<>>, FALSE)

\* connect() on an empty folder: Ckydb::new loads the store
Init ==
    /\ max_file_size_kb \in {SmallFileSize, LargeFileSize}
    /\ Holds(StoreLoad(Blank(max_file_size_kb)).s)
    /\ Connected
    /\ ops = 0
    /\ crashed = FALSE
    /\ last = Call("connect", <<>>, <<>>, "ok", <<>>, FALSE)
    /\ rolls = 0
    /\ only_new_sets = TRUE
    /\ deleted = {}
    /\ expected = EmptyMap
    /\ before = [k \in Keys |-> <<"notfound", <<>>>>]

\* whether the log file written by the set of a new key reaches the threshold
ReachesThreshold(key, value) ==
    Len(log_files[current_log_file_path]) + Len(TimestampedKey(to_string(clock), key))
        + KEY_VALUE_SEPARATOR_LENGTH + Len(value) + TOKEN_SEPARATOR_LENGTH
      >= max_file_size_kb

\* Ckydb::set
Set(key, value) ==
    /\ ~crashed
    /\ ops < MaxOps
    /\ LET Done(r) ==
               /\ r.s.clock <= MaxClock + 1
               /\ Outcome(r)
               /\ last' = Call("set", key, value, r.status, <<>>,
                               key \notin DOMAIN index)
               /\ expected' = IF r.status = "ok" THEN Put(expected, key, value)
                              ELSE expected
       IN  Done(StoreSet(Cur, key, value))
    /\ rolls' = IF key \notin DOMAIN index /\ ReachesThreshold(key, value)
                THEN rolls + 1 ELSE rolls
    /\ only_new_sets' = (only_new_sets /\ key \notin DOMAIN index)
    /\ deleted' = deleted \ {key}

\* Ckydb::get
Get(key) ==
    /\ ~crashed
    /\ ops < MaxOps
    /\ LET Done(r) ==
               /\ Outcome(r)
               /\ last' = Call("get", key, <<>>, r.status, r.value, FALSE)
       IN  Done(StoreGet(Cur, key))
    /\ UNCHANGED <<rolls, only_new_sets, deleted, expected>>

\* Ckydb::delete
Delete(key) ==
    /\ ~crashed
    /\ ops < MaxOps
    /\ LET Done(r) ==
               /\ Outcome(r)
               /\ last' = Call("delete", key, <<>>, r.status, <<>>, FALSE)
               /\ deleted' = IF r.status = "ok" THEN deleted \cup {key} ELSE deleted
               /\ expected' = IF r.status = "ok" THEN Drop(expected, key) ELSE expected
       IN  Done(StoreDelete(Cur, key))
    /\ rolls' = rolls
    /\ only_new_sets' = FALSE

\* Ckydb::clear
Clear ==
    /\ ~crashed
    /\ ops < MaxOps
    /\ LET Done(r) ==
               /\ r.s.clock <= MaxClock + 1
               /\ Outcome(r)
               /\ last' = Call("clear", <<>>, <<>>, r.status, <<>>, FALSE)
       IN  Done(StoreClear(Cur))
    /\ rolls' = 0
    /\ only_new_sets' = TRUE
    /\ deleted' = deleted
    /\ expected' = EmptyMap

\* one cycle of the vacuum thread: shadow_store.vacuum() under mut_lock
Vacuum ==
    /\ ~crashed
    /\ ops < MaxOps
    /\ Outcome([s |-> unlocked_vacuum(Cur), status |-> "ok"])
    /\ last' = Call("vacuum", <<>>, <<>>, "ok", get_keys_to_delete(Cur), FALSE)
    /\ only_new_sets' = FALSE
    /\ UNCHANGED <<rolls, deleted, expected>>

\* the process ends (close(), or a panic) and connect() opens the same folder
Reopen ==
    /\ ops < MaxOps
    /\ LET Done(r) ==
               /\ Becomes(r.s)
               /\ last' = Call("connect", <<>>, <<>>, r.status, <<>>, FALSE)
       IN  Done(StoreLoad(StoreNew(Cur)))
    /\ crashed' = FALSE
    /\ before' = [k \in Keys |-> IF crashed THEN <<"panic", <<>>>> ELSE GetResult(k)]
    /\ ops' = ops + 1
    /\ only_new_sets' = FALSE
    /\ UNCHANGED <<rolls, max_file_size_kb, deleted, expected, threadVars>>

Next ==
    \/ \E key \in Keys, value \in Values : Set(key, value)
    \/ \E key \in Keys : Get(key)
    \/ \E key \in Keys : Delete(key)
    \/ Clear
    \/ Vacuum
    \/ Reopen

Spec == Init /\ [][Next]_vars

\* Ckydb::set of a key that the index does not map, during which the write
\* of the log file fails
SetFails(key, value) ==
    /\ ~crashed
    /\ ops < MaxOps
    /\ key \notin DOMAIN index
    /\ LET Done(r) ==
               /\ r.s.clock <= MaxClock + 1
               /\ Outcome(r)
               /\ last' = Call("set", key, value, r.status, <<>>, TRUE)
       IN  Done(StoreSetFailing(Cur, key, value))
    /\ only_new_sets' = FALSE
    /\ UNCHANGED <<rolls, deleted, expected>>

\* the engine on a file system whose writes of the log file can fail
FaultNext ==
    \/ Next
    \/ \E key \in Keys, value \in Values : SetFails(key, value)

FaultSpec == Init /\ [][FaultNext]_vars

\* Ckydb::delete of a key of the index, during which the append to the
\* delete file fails
DeleteFails(key) ==
    /\ ~crashed
    /\ ops < MaxOps
    /\ key \in DOMAIN index
    /\ LET Done(r) ==
               /\ Outcome(r)
               /\ last' = Call("delete", key, <<>>, r.status, <<>>, FALSE)
       IN  Done(StoreDeleteFailing(Cur, key))
    /\ only_new_sets' = FALSE
    /\ UNCHANGED <<rolls, deleted, expected>>

\* the engine on a file system whose appends to the delete file can fail
DeleteFaultNext ==
    \/ Next
    \/ \E key \in Keys : DeleteFails(key)

DeleteFaultSpec == Init /\ [][DeleteFaultNext]_vars

\* ------------------------------------------------------------------------
\* The caller and the vacuum thread running side by side (controller.rs)
\* ------------------------------------------------------------------------
\* Lock::lock on a lock that allows one holder: it waits until no one holds it
CanLock(holder) == holder = "free"

\* the methods of Ckydb that call mut_lock.lock()
Mutators == {"set", "delete", "clear"}

\* where the vacuum thread is while shadow_store.vacuum() runs
InCycle == {"read", "files"}

\* the histories kept for the calls that run to completion stay as they are
Unobserved ==
    UNCHANGED <<rolls, only_new_sets, deleted, expected, before, max_file_size_kb>>

\* the caller enters a method of Ckydb
Begins(c, pc) ==
    /\ upc = "idle"
    /\ ~crashed
    /\ ops < MaxCalls
    /\ upc' = pc
    /\ call' = c
    /\ ops' = ops + 1
    /\ UNCHANGED <<storeVars, diskVars, clock, crashed, last, is_open, tasks, chan,
                   mut_lock, del_file_lock, cpc, wait, keys_to_delete,
                   files_to_vacuum>>
    /\ Unobserved

\* the method of Ckydb the caller is in returns, or panics
Returns(r, ret) ==
    /\ Becomes(r.s)
    /\ crashed' = (r.status = "panic")
    /\ last' = [call EXCEPT !.status = r.status, !.ret = ret]
    /\ upc' = "idle"
    /\ UNCHANGED <<ops, is_open, tasks, chan, del_file_lock, cpc, wait,
                   keys_to_delete, files_to_vacuum, call>>
    /\ Unobserved

\* Ckydb::set is called and reaches self.mut_lock.lock()
SetCall(key, value) ==
    Begins(Call("set", key, value, "pending", <<>>, key \notin DOMAIN index), "lock")

\* Ckydb::get is called and reaches self.store.get(key)
GetCall(key) ==
    Begins(Call("get", key, <<>>, "pending", <<>>, FALSE), "run")

\* Ckydb::delete is called and reaches self.mut_lock.lock()
DeleteCall(key) ==
    Begins(Call("delete", key, <<>>, "pending", <<>>, FALSE), "lock")

\* Ckydb::clear is called and reaches self.mut_lock.lock()
ClearCall ==
    Begins(Call("clear", <<>>, <<>>, "pending", <<>>, FALSE), "lock")

\* set, delete or clear going on without self.mut_lock.lock()
MutLockSkipped ==
    /\ upc = "lock"
    /\ upc' = "run"
    /\ UNCHANGED <<dataVars, is_open, tasks, chan, mut_lock, del_file_lock, cpc,
                   wait, keys_to_delete, files_to_vacuum, call>>

\* self.mut_lock.lock() of set, delete and clear
MutLock ==
    /\ upc = "lock"
    /\ CanLock(mut_lock)
    /\ mut_lock' = "user"
    /\ upc' = "run"
    /\ UNCHANGED <<dataVars, is_open, tasks, chan, del_file_lock, cpc, wait,
                   keys_to_delete, files_to_vacuum, call>>

\* Ckydb::set under mut_lock: self.store.set(key, value), then the guard drops
SetRun ==
    /\ upc = "run"
    /\ call.op = "set"
    /\ \E r \in {StoreSet(Cur, call.key, call.value)} : Returns(r, <<>>)
    /\ mut_lock' = "free"

\* Ckydb::get: self.store.get(key)
GetRun ==
    /\ upc = "run"
    /\ call.op = "get"
    /\ \E r \in {StoreGet(Cur, call.key)} : Returns(r, r.value)
    /\ UNCHANGED mut_lock

\* Ckydb::delete under mut_lock: self.store.delete(key), which holds the
\* del_file_lock of the store of Ckydb, then the guard drops
DeleteRun ==
    /\ upc = "run"
    /\ call.op = "delete"
    /\ CanLock(del_file_lock.main)
    /\ \E r \in {StoreDelete(Cur, call.key)} : Returns(r, <<>>)
    /\ mut_lock' = "free"

\* Ckydb::clear under mut_lock: self.store.clear(), then the guard drops
ClearRun ==
    /\ upc = "run"
    /\ call.op = "clear"
    /\ \E r \in {StoreClear(Cur)} : Returns(r, <<>>)
    /\ mut_lock' = "free"

\* Ckydb::close up to the wait for the task: nothing to do when not open,
\* else the tasks are taken and Signal::Stop is sent for the task
CloseCall ==
    /\ upc = "idle"
    /\ ~crashed
    /\ ops < MaxCalls
    /\ ops' = ops + 1
    /\ call' = Call("close", <<>>, <<>>, "ok", <<>>, FALSE)
    /\ IF ~is_open
       THEN /\ upc' = "idle"
            /\ last' = call'
            /\ UNCHANGED <<is_open, tasks, chan>>
       ELSE IF tasks.is_some /\ tasks.handles > 0
       THEN /\ tasks' = [is_some |-> FALSE, handles |-> 0]
            /\ chan' = chan + 1
            /\ upc' = "closing"
            /\ UNCHANGED <<is_open, last>>
       ELSE /\ tasks' = [is_some |-> FALSE, handles |-> 0]
            /\ is_open' = FALSE
            /\ upc' = "idle"
            /\ last' = call'
            /\ UNCHANGED chan
    /\ UNCHANGED <<storeVars, diskVars, clock, crashed, mut_lock, del_file_lock,
                   cpc, wait, keys_to_delete, files_to_vacuum>>
    /\ Unobserved

\* Ckydb::close returning without looking at task.is_finished()
CloseWithoutWaiting ==
    /\ upc = "closing"
    /\ is_open' = FALSE
    /\ upc' = "idle"
    /\ last' = call
    /\ UNCHANGED <<storeVars, diskVars, clock, crashed, ops, tasks, chan, mut_lock,
                   del_file_lock, cpc, wait, keys_to_delete, files_to_vacuum, call>>
    /\ Unobserved

\* Ckydb::close from while !task.is_finished() on: it sleeps until the
\* thread has ended, then sets is_open and returns
CloseWait ==
    /\ upc = "closing"
    /\ cpc = "finished"
    /\ is_open' = FALSE
    /\ upc' = "idle"
    /\ last' = call
    /\ UNCHANGED <<storeVars, diskVars, clock, crashed, ops, tasks, chan, mut_lock,
                   del_file_lock, cpc, wait, keys_to_delete, files_to_vacuum, call>>
    /\ Unobserved

\* Ckydb::open: nothing to do when open, else shadow_store is made and
\* loaded from the folder and the vacuum thread is spawned
OpenCall ==
    /\ upc = "idle"
    /\ ~crashed
    /\ ops < MaxCalls
    /\ ops' = ops + 1
    /\ upc' = "idle"
    /\ LET Loaded(r) ==
               /\ call' = Call("open", <<>>, <<>>, r.status, <<>>, FALSE)
               /\ index_file' = r.s.index_file
               /\ del_file' = r.s.del_file
               /\ log_files' = r.s.log_files
               /\ cky_files' = r.s.cky_files
               /\ clock' = r.s.clock
               /\ IF r.status = "ok"
                  THEN /\ cpc' = "recv"
                       /\ wait' = 0
                       /\ tasks' = [is_some |-> TRUE, handles |-> 1]
                       /\ is_open' = TRUE
                  ELSE UNCHANGED <<is_open, tasks, cpc, wait>>
       IN  IF is_open
           THEN /\ call' = Call("open", <<>>, <<>>, "ok", <<>>, FALSE)
                /\ UNCHANGED <<diskVars, clock, is_open, tasks, cpc, wait>>
           ELSE Loaded(StoreLoad(StoreNew(Cur)))
    /\ last' = call'
    /\ UNCHANGED <<storeVars, crashed, chan, mut_lock, del_file_lock,
                   keys_to_delete, files_to_vacuum>>
    /\ Unobserved

\* the vacuum thread taking Signal::Stop from the channel and going on as
\* for Signal::Continue
VacuumPollIgnoringStop ==
    /\ cpc = "recv"
    /\ chan' = IF chan > 0 THEN chan - 1 ELSE chan
    /\ IF wait < number_of_waits
       THEN /\ cpc' = "recv"
            /\ wait' = wait + 1
       ELSE /\ cpc' = "lock"
            /\ wait' = wait
    /\ UNCHANGED <<dataVars, is_open, tasks, mut_lock, del_file_lock, keys_to_delete,
                   files_to_vacuum, upc, call>>

\* the vacuum thread at the top of its loop breaking on a Stop that it
\* leaves in the channel
VacuumPollLeavingStop ==
    /\ cpc = "recv"
    /\ IF chan > 0
       THEN /\ chan' = chan
            /\ cpc' = "finished"
            /\ wait' = wait
       ELSE IF wait < number_of_waits
       THEN /\ cpc' = "recv"
            /\ wait' = wait + 1
            /\ chan' = chan
       ELSE /\ cpc' = "lock"
            /\ UNCHANGED <<wait, chan>>
    /\ UNCHANGED <<dataVars, is_open, tasks, mut_lock, del_file_lock, keys_to_delete,
                   files_to_vacuum, upc, call>>

\* the vacuum thread at the top of its loop: rv.try_recv(), then break on
\* Stop, sleep while wait < number_of_waits, else go for mut_lock
VacuumPoll ==
    /\ cpc = "recv"
    /\ IF chan > 0
       THEN /\ chan' = chan - 1
            /\ cpc' = "finished"
            /\ wait' = wait
       ELSE IF wait < number_of_waits
       THEN /\ cpc' = "recv"
            /\ wait' = wait + 1
            /\ chan' = chan
       ELSE /\ cpc' = "lock"
            /\ UNCHANGED <<wait, chan>>
    /\ UNCHANGED <<dataVars, is_open, tasks, mut_lock, del_file_lock, keys_to_delete,
                   files_to_vacuum, upc, call>>

\* the vacuum thread going on without mut_lock.lock()
VacuumLockSkipped ==
    /\ cpc = "lock"
    /\ cpc' = "read"
    /\ UNCHANGED <<dataVars, is_open, tasks, chan, mut_lock, del_file_lock, wait,
                   keys_to_delete, files_to_vacuum, upc, call>>

\* the vacuum thread: if let Ok(_) = mut_lock.lock()
VacuumLock ==
    /\ cpc = "lock"
    /\ CanLock(mut_lock)
    /\ mut_lock' = "vacuum"
    /\ cpc' = "read"
    /\ UNCHANGED <<dataVars, is_open, tasks, chan, del_file_lock, wait,
                   keys_to_delete, files_to_vacuum, upc, call>>

\* the vacuum thread leaving shadow_store.vacuum() with the guard of
\* mut_lock kept
CycleEndsKeepingMutLock ==
    /\ mut_lock' = mut_lock
    /\ del_file_lock' = [del_file_lock EXCEPT !.shadow = "free"]
    /\ wait' = 0 + 1
    /\ cpc' = "recv"
    /\ keys_to_delete' = <<>>
    /\ files_to_vacuum' = {}

\* the vacuum thread leaves shadow_store.vacuum(): the guards drop, then
\* wait = 0 and wait += 1
CycleEnds ==
    /\ mut_lock' = "free"
    /\ del_file_lock' = [del_file_lock EXCEPT !.shadow = "free"]
    /\ wait' = 0 + 1
    /\ cpc' = "recv"
    /\ keys_to_delete' = <<>>
    /\ files_to_vacuum' = {}

\* shadow_store.vacuum() writing "" to the delete file right after it has
\* read the keys from it
VacuumReadTruncating ==
    /\ cpc = "read"
    /\ CanLock(del_file_lock.shadow)
    /\ \E keys \in {get_keys_to_delete(Cur)} :
               IF Len(keys) = 0
               THEN CycleEnds /\ del_file' = del_file
               ELSE /\ keys_to_delete' = keys
                    /\ files_to_vacuum' =
                          { [ext |-> "log", name |-> f] : f \in DOMAIN log_files }
                          \cup { [ext |-> "cky", name |-> f] : f \in DOMAIN cky_files }
                    /\ del_file_lock' = [del_file_lock EXCEPT !.shadow = "vacuum"]
                    /\ cpc' = "files"
                    /\ del_file' = <<>>
                    /\ UNCHANGED <<mut_lock, wait>>
    /\ UNCHANGED <<storeVars, index_file, log_files, cky_files, max_file_size_kb,
                   clock, crashed, last, rolls, only_new_sets, deleted, expected,
                   before, ops, is_open, tasks, chan, upc, call>>

\* shadow_store.vacuum() up to the list of files: del_file_lock of
\* shadow_store, the read of the delete file, the return when it is empty
VacuumRead ==
    /\ cpc = "read"
    /\ CanLock(del_file_lock.shadow)
    /\ \E keys \in {get_keys_to_delete(Cur)} :
               IF Len(keys) = 0
               THEN CycleEnds
               ELSE /\ keys_to_delete' = keys
                    /\ files_to_vacuum' =
                          { [ext |-> "log", name |-> f] : f \in DOMAIN log_files }
                          \cup { [ext |-> "cky", name |-> f] : f \in DOMAIN cky_files }
                    /\ del_file_lock' = [del_file_lock EXCEPT !.shadow = "vacuum"]
                    /\ cpc' = "files"
                    /\ UNCHANGED <<mut_lock, wait>>
    /\ UNCHANGED <<dataVars, is_open, tasks, chan, upc, call>>

\* unlocked_vacuum rewrites one file of files_to_vacuum; a file that is
\* gone is an error that ends the cycle
VacuumFile(file) ==
    /\ cpc = "files"
    /\ file \in files_to_vacuum
    /\ IF file.ext = "log" /\ file.name \in DOMAIN log_files
       THEN /\ log_files' = [log_files EXCEPT ![file.name] =
                                delete_key_values_from_file(@, keys_to_delete)]
            /\ files_to_vacuum' = files_to_vacuum \ {file}
            /\ UNCHANGED <<cky_files, mut_lock, del_file_lock, wait, cpc,
                           keys_to_delete>>
       ELSE IF file.ext = "cky" /\ file.name \in DOMAIN cky_files
       THEN /\ cky_files' = [cky_files EXCEPT ![file.name] =
                                delete_key_values_from_file(@, keys_to_delete)]
            /\ files_to_vacuum' = files_to_vacuum \ {file}
            /\ UNCHANGED <<log_files, mut_lock, del_file_lock, wait, cpc,
                           keys_to_delete>>
       ELSE /\ CycleEnds
            /\ UNCHANGED <<log_files, cky_files>>
    /\ UNCHANGED <<storeVars, index_file, del_file, max_file_size_kb, clock, crashed,
                   last, rolls, only_new_sets, deleted, expected, before, ops,
                   is_open, tasks, chan, upc, call>>

\* unlocked_vacuum ending after the last file without writing the delete file
VacuumWithoutTruncate ==
    /\ cpc = "files"
    /\ files_to_vacuum = {}
    /\ del_file' = del_file
    /\ CycleEnds
    /\ UNCHANGED <<storeVars, index_file, log_files, cky_files, max_file_size_kb,
                   clock, crashed, last, rolls, only_new_sets, deleted, expected,
                   before, ops, is_open, tasks, chan, upc, call>>

\* unlocked_vacuum after the last file: fs::write(del_file_path, "")
VacuumTruncate ==
    /\ cpc = "files"
    /\ files_to_vacuum = {}
    /\ del_file' = <<>>
    /\ CycleEnds
    /\ UNCHANGED <<storeVars, index_file, log_files, cky_files, max_file_size_kb,
                   clock, crashed, last, rolls, only_new_sets, deleted, expected,
                   before, ops, is_open, tasks, chan, upc, call>>

ThreadsNext ==
    \/ \E key \in Keys, value \in ThreadValues : SetCall(key, value)
    \/ \E key \in Keys : GetCall(key)
    \/ \E key \in Keys : DeleteCall(key)
    \/ ClearCall
    \/ CloseCall
    \/ OpenCall
    \/ MutLock
    \/ SetRun
    \/ GetRun
    \/ DeleteRun
    \/ ClearRun
    \/ CloseWait
    \/ VacuumPoll
    \/ VacuumLock
    \/ VacuumRead
    \/ \E file \in files_to_vacuum : VacuumFile(file)
    \/ VacuumTruncate

ThreadsSpec == Init /\ [][ThreadsNext]_vars

\* the steps of the vacuum thread (the closure given to thread::spawn)
VacuumThread ==
    \/ VacuumPoll
    \/ VacuumLock
    \/ VacuumRead
    \/ \E file \in files_to_vacuum : VacuumFile(file)
    \/ VacuumTruncate

\* the steps by which a method of Ckydb that was entered goes on and returns
Caller ==
    \/ MutLock
    \/ SetRun
    \/ GetRun
    \/ DeleteRun
    \/ ClearRun
    \/ CloseWait

\* whether a step of Caller can be taken: MutLock waits for mut_lock,
\* CloseWait for the end of the vacuum thread, and a method that runs
\* returns or panics
CallerCanStep ==
    \/ upc = "lock" /\ CanLock(mut_lock)
    \/ upc = "run" /\ (call.op = "delete" => CanLock(del_file_lock.main))
    \/ upc = "closing" /\ cpc = "finished"

\* both threads are scheduled again and again (weak fairness of
\* VacuumThread and of Caller, the latter written out with CallerCanStep
\* for ENABLED <<Caller>>_vars); the caller need not make another call
ThreadsFairSpec ==
    /\ Init /\ [][ThreadsNext]_vars
    /\ WF_vars(VacuumThread)
    /\ ([]<>(~CallerCanStep) \/ []<><<Caller>>_vars)

\* as ThreadsFairSpec, with strong fairness of Caller: a caller that waits
\* in mut_lock.lock() gets the lock when it is free again and again, as it
\* is for number_of_waits sleeps of the vacuum thread between two cycles
ThreadsStrongFairSpec ==
    /\ Init /\ [][ThreadsNext]_vars
    /\ WF_vars(VacuumThread)
    /\ (<>[](~CallerCanStep) \/ []<><<Caller>>_vars)

\* ------------------------------------------------------------------------
\* Properties
\* ------------------------------------------------------------------------
\* C1: a get(k) issued right after a successful set(k, v) returns v
SetThenGetReturnsValue ==
    (last.op = "set" /\ last.status = "ok")
        => GetResult(last.key) = <<"ok", last.value>>

\* C2: a successful set that updates a key leaves the result of get of every
\* other live key as it was
UpdateKeepsOtherKeys ==
    (last.op = "set" /\ last.status = "ok" /\ ~last.is_new)
        => \A k \in DOMAIN index \ {last.key} :
              before[k][1] = "ok" => GetResult(k) = before[k]

\* C4: after close and connect on the same folder get returns the same value
\* for every key that had one and not-found for every other key
RestartKeepsValues ==
    (last.op = "connect" /\ ops > 0)
        => \A k \in Keys :
              /\ before[k][1] = "ok" => GetResult(k) = before[k]
              /\ before[k][1] = "notfound" => GetResult(k)[1] = "notfound"

\* C5: a compaction cycle leaves the result of get of every key as it was
VacuumKeepsGets ==
    last.op = "vacuum" => \A k \in Keys : GetResult(k) = before[k]

\* C3: after a successful delete(k), get(k) fails with not-found until k is
\* given to set again, and get of every other live key returns what it
\* returned before the delete
DeleteHidesOnlyKey ==
    /\ \A k \in deleted : GetResult(k)[1] = "notfound"
    /\ (last.op = "delete" /\ last.status = "ok")
          => \A k \in DOMAIN index : GetResult(k) = before[k]

\* a delete succeeded while another key was live with a value
DeleteHidesOnlyKeyWitness ==
    /\ last.op = "delete" /\ last.status = "ok"
    /\ last.key \in deleted
    /\ before[last.key][1] = "ok"
    /\ \E k \in DOMAIN index : before[k][1] = "ok"

\* a compaction cycle removed a deleted key from a segment that holds a live
\* key which get must load from disk
VacuumKeepsGetsWitness ==
    /\ last.op = "vacuum"
    /\ last.ret # <<>>
    /\ \E k \in DOMAIN index :
          /\ GetResult(k)[1] = "ok"
          /\ StrLt(index[k], current_log_file)
          /\ ~IsInRange(cache, index[k])

\* C6: when sets of new keys on an empty database have made the log reach
\* the threshold N times, there are N .cky files, one .log file, N entries
\* in data_files, and get returns the inserted value of every inserted key
RollsMakeSegments ==
    (only_new_sets /\ ~crashed)
        => /\ Cardinality(DOMAIN cky_files) = rolls
           /\ Cardinality(DOMAIN log_files) = 1
           /\ Len(data_files) = rolls
           /\ DOMAIN expected = DOMAIN index
           /\ \A k \in DOMAIN expected : GetResult(k) = <<"ok", expected[k]>>

\* two sets of new keys each made the log reach the threshold
RollsMakeSegmentsWitness ==
    /\ only_new_sets /\ ~crashed
    /\ rolls = 2
    /\ Cardinality(DOMAIN expected) = 2

\* C7: while a get runs the caller holds mut_lock and the vacuum thread is
\* not inside a compaction cycle
GetHoldsMutLock ==
    (upc = "run" /\ call.op = "get")
        => (mut_lock = "user" /\ cpc \notin InCycle)

\* C8: while the vacuum thread is inside a compaction cycle it holds
\* mut_lock and no set, delete or clear runs, and a running set, delete or
\* clear holds mut_lock
CycleExcludesMutators ==
    /\ cpc \in InCycle
          => (mut_lock = "vacuum" /\ ~(upc = "run" /\ call.op \in Mutators))
    /\ (upc = "run" /\ call.op \in Mutators) => mut_lock = "user"

\* a set, delete or clear waits for mut_lock while a cycle rewrites files
CycleExcludesMutatorsWitness ==
    /\ cpc = "files"
    /\ upc = "lock"
    /\ call.op \in Mutators
    /\ mut_lock = "vacuum"

\* C9: between the read of the delete file by the vacuum thread and its
\* truncation the delete file holds the keys that were read and no other,
\* and when the truncation comes no .log or .cky file holds a token of a
\* key of the delete file
NoTombstoneLost ==
    /\ cpc = "files" => get_keys_to_delete(Cur) = keys_to_delete
    /\ (cpc = "files" /\ files_to_vacuum = {})
          => \A f \in Range(log_files) \cup Range(cky_files) :
                \A i \in DOMAIN extract_tokens_from_str(f) :
                   ~has_any_of_prefixes(
                       extract_tokens_from_str(f)[i],
                       [j \in DOMAIN get_keys_to_delete(Cur) |->
                           get_keys_to_delete(Cur)[j] \o KEY_VALUE_SEPARATOR])

\* a delete waits while the vacuum thread is between read and truncation
NoTombstoneLostWitness ==
    /\ cpc = "files"
    /\ Len(keys_to_delete) > 0
    /\ upc = "lock"
    /\ call.op = "delete"
    /\ call.key \in DOMAIN index

\* C10: when close() has returned the vacuum thread has ended
CloseStopsVacuumThread ==
    (~is_open \/ (upc = "idle" /\ last.op = "close")) => cpc = "finished"

\* close() has returned after sending Stop to a running vacuum thread
CloseStopsVacuumThreadWitness ==
    /\ ~is_open
    /\ upc = "idle"
    /\ last.op = "close"
    /\ cpc = "finished"
    /\ chan = 0

\* the timestamped keys the store can make within the bounds
TimestampedKeys ==
    { TimestampedKey(to_string(c), k) :
        c \in StartClock..(StartClock + 1 + 2 * MaxCalls), k \in Keys }

\* the delete file holds the timestamped key tk
Tombstoned(tk) == tk \in Range(extract_tokens_from_str(del_file))

\* a .log or .cky file holds a token of the timestamped key tk
OnDisk(tk) ==
    \E f \in Range(log_files) \cup Range(cky_files) :
        \E token \in Range(extract_tokens_from_str(f)) :
            StartsWith(token, tk \o KEY_VALUE_SEPARATOR)

\* Stop has been sent to the vacuum thread, or the engine is not open
StopSent == ~is_open \/ chan > 0 \/ cpc = "finished"

\* C11: while the engine is open and no Stop has been sent, a timestamped
\* key that is in the delete file is eventually in neither the delete file
\* nor any .log or .cky file
TombstonesEventuallyVacuumed ==
    \A tk \in TimestampedKeys :
        (Tombstoned(tk) /\ ~StopSent) ~> ((~Tombstoned(tk) /\ ~OnDisk(tk)) \/ StopSent)

\* the vacuum thread has ended a cycle that emptied the delete file after
\* the last call of the caller, a delete, had appended to it
TombstonesEventuallyVacuumedWitness ==
    /\ upc = "idle"
    /\ last.op = "delete" /\ last.status = "ok"
    /\ is_open /\ chan = 0
    /\ cpc = "recv" /\ wait = 1
    /\ del_file = <<>>
    /\ \A tk \in TimestampedKeys : ~OnDisk(tk) \/ tk \in Range(index)

\* the key of a token: what stands before the key-value separator
TokenKey(token) == Split(token, KEY_VALUE_SEPARATOR)[1]

\* the tokens of a file that are left when those with a key in D are taken out
TokensWithout(content, D) ==
    SelectSeq(extract_tokens_from_str(content), LAMBDA token : TokenKey(token) \notin D)

\* C12: a compaction cycle that finds the set D of timestamped keys in the
\* delete file empties the delete file and leaves in every .log and .cky
\* file the tokens whose key is not in D, in their order, and no other; a
\* cycle that finds the delete file empty changes no file
VacuumRemovesTombstoned ==
    [][last'.op = "vacuum" =>
          IF del_file # <<>>
          THEN /\ del_file' = <<>>
               /\ index_file' = index_file
               /\ DOMAIN log_files' = DOMAIN log_files
               /\ DOMAIN cky_files' = DOMAIN cky_files
               /\ \A f \in DOMAIN log_files :
                     extract_tokens_from_str(log_files'[f])
                        = TokensWithout(log_files[f], Range(get_keys_to_delete(Cur)))
               /\ \A f \in DOMAIN cky_files :
                     extract_tokens_from_str(cky_files'[f])
                        = TokensWithout(cky_files[f], Range(get_keys_to_delete(Cur)))
          ELSE UNCHANGED diskVars]_vars

\* a compaction cycle found keys in the delete file and left a .cky file
\* with tokens in it
VacuumRemovesTombstonedWitness ==
    /\ last.op = "vacuum"
    /\ last.ret # <<>>
    /\ del_file = <<>>
    /\ \E f \in DOMAIN cky_files : extract_tokens_from_str(cky_files[f]) # <<>>

\* C13: after clear() the store is that of a freshly loaded empty database:
\* index, memtable and data_files empty, the cache the empty one, the folder
\* an empty index file, an empty delete file and one empty .log file, and
\* every get fails with not-found
ClearGivesFreshStore ==
    (last.op = "clear" /\ last.status = "ok")
        => /\ index = EmptyMap
           /\ memtable = TokenizedStringDefault
           /\ data_files = <<>>
           /\ cache = CacheNewEmpty
           /\ index_file = <<>>
           /\ del_file = <<>>
           /\ cky_files = EmptyMap
           /\ DOMAIN log_files = {current_log_file}
           /\ log_files[current_log_file] = <<>>
           /\ \A k \in Keys : GetResult(k) = <<"notfound", <<>>>>

\* C14: when set of a key that the index did not map returns an error,
\* neither the index nor the index file has an entry for the key
FailedSetLeavesNoIndexEntry ==
    (last.op = "set" /\ last.is_new /\ last.status \notin {"ok", "panic"})
        => /\ last.key \notin DOMAIN index
           /\ \A token \in Range(extract_tokens_from_str(index_file)) :
                 TokenKey(token) # last.key

\* C15: set returns ok or a corrupted-data error, never a not-found error
SetNeverReturnsNotFound ==
    last.op = "set" => last.status \in {"ok", "corrupted", "panic"}

\* C16: get and delete of a key that the index does not map return
\* not-found and leave the index, the memtable, the cache and every file
\* as they were
UnmappedKeyChangesNothing ==
    [][(last'.op \in {"get", "delete"} /\ ops' = ops + 1
            /\ last'.key \notin DOMAIN index)
          => /\ last'.status = "notfound"
             /\ UNCHANGED <<storeVars, diskVars>>]_vars

\* a key that was deleted is deleted once more while another key is live
UnmappedKeyChangesNothingWitness ==
    /\ last.op = "delete"
    /\ last.status = "notfound"
    /\ last.key \in deleted
    /\ DOMAIN index # {}
    /\ del_file # <<>>

\* C17: a successful delete(k) takes the entry of k, and nothing else, out
\* of the index and of the index file, appends the timestamped key of k as
\* one token to the delete file, and leaves the memtable, the cache and
\* every .log and .cky file as they were
DeleteOnlyMarks ==
    [][(last'.op = "delete" /\ last'.status = "ok" /\ ops' = ops + 1)
          => /\ last'.key \in DOMAIN index
             /\ index' = Drop(index, last'.key)
             /\ extract_tokens_from_str(index_file')
                   = TokensWithout(index_file, {last'.key})
             /\ del_file' = del_file \o index[last'.key] \o TOKEN_SEPARATOR
             /\ extract_tokens_from_str(del_file')
                   = Append(extract_tokens_from_str(del_file), index[last'.key])
             /\ UNCHANGED <<memtable, cache, data_files, current_log_file,
                            current_log_file_path, log_files, cky_files>>]_vars

\* a key was deleted and a .log or .cky file still holds its token
DeleteOnlyMarksWitness ==
    /\ last.op = "delete"
    /\ last.status = "ok"
    /\ Len(get_keys_to_delete(Cur)) > 0
    /\ OnDisk(get_keys_to_delete(Cur)[Len(get_keys_to_delete(Cur))])
    /\ DOMAIN index # {}

\* C18: the timestamped key of an indexed key stays the same through every
\* call but a successful delete of the key and a clear, and a set of an
\* indexed key leaves the index file as it was
TimestampedKeyIsStable ==
    [][/\ \A k \in DOMAIN index :
             (/\ ~(last'.op = "delete" /\ last'.key = k /\ last'.status = "ok")
              /\ last'.op # "clear")
                => (k \in DOMAIN index' /\ index'[k] = index[k])
       /\ (last'.op = "set" /\ ops' = ops + 1 /\ last'.key \in DOMAIN index)
             => index_file' = index_file]_vars

\* a key whose pair is in a .cky file was given a new value
TimestampedKeyIsStableWitness ==
    /\ last.op = "set"
    /\ last.status = "ok"
    /\ ~last.is_new
    /\ last.key \in DOMAIN index
    /\ StrLt(index[last.key], current_log_file)
    /\ before[last.key][1] = "ok"
    /\ before[last.key][2] # last.value

\* C19: a .cky file of which a compaction cycle removes every token is gone
\* after the cycle, and its base name is no longer in data_files
EmptiedSegmentIsDestroyed ==
    [][last'.op = "vacuum" =>
          \A f \in DOMAIN cky_files :
             (/\ extract_tokens_from_str(cky_files[f]) # <<>>
              /\ TokensWithout(cky_files[f], Range(get_keys_to_delete(Cur))) = <<>>)
                => (f \notin DOMAIN cky_files' /\ f \notin Range(data_files'))]_vars

\* C20: no timestamped key of the tombstone file is the value of an entry of
\* the index, in memory or in the index file
TombstonedIsNotIndexed ==
    \A tk \in Range(get_keys_to_delete(Cur)) :
        /\ tk \notin Range(index)
        /\ \A token \in Range(extract_tokens_from_str(index_file)) :
               tk \notin Range(Split(token, KEY_VALUE_SEPARATOR))

\* a deleted key was set again while its old timestamped key is still in
\* the tombstone file
TombstonedIsNotIndexedWitness ==
    /\ last.op = "set"
    /\ last.status = "ok"
    /\ last.is_new
    /\ last.key \in DOMAIN index
    /\ \E tk \in Range(get_keys_to_delete(Cur)) :
           /\ tk # index[last.key]
           /\ \E c \in StartClock..MaxClock : tk = TimestampedKey(to_string(c), last.key)
    /\ \E token \in Range(extract_tokens_from_str(index_file)) :
           Split(token, KEY_VALUE_SEPARATOR) = <<last.key, index[last.key]>>

\* the .cky files with a token whose key is tk
SegmentsHolding(tk) ==
    { f \in DOMAIN cky_files :
        \E token \in Range(extract_tokens_from_str(cky_files[f])) : TokenKey(token) = tk }

\* exactly one .cky file holds tk, the one named by the largest entry of
\* data_files that is <= tk
InItsSegment(tk) ==
    \E f \in Range(data_files) :
        /\ SegmentsHolding(tk) = {f}
        /\ StrLe(f, tk)
        /\ \A g \in Range(data_files) : StrLe(g, tk) => StrLe(g, f)

\* C21: for every timestamped key of the index, the memtable has a value for
\* it when it is >= current_log_file, and otherwise exactly one .cky file
\* holds it, the one of the largest entry of data_files that is <= it
ValueLivesInOnePlace ==
    ~crashed =>
      \A k \in DOMAIN index :
        IF StrLe(current_log_file, index[k])
        THEN TokenizedStringGet(memtable, index[k]).status = "ok"
        ELSE InItsSegment(index[k])

\* C22: data_files is in strictly increasing order and current_log_file is
\* greater than every entry of it
DataFilesSorted ==
    /\ \A i \in 1..(Len(data_files) - 1) : StrLt(data_files[i], data_files[i + 1])
    /\ \A i \in 1..Len(data_files) : StrLt(data_files[i], current_log_file)

\* a load found in the folder the two segments that sets had rolled
DataFilesSortedWitness ==
    /\ Len(data_files) >= 2
    /\ last.op = "connect"
    /\ rolls >= 2

\* ------------------------------------------------------------------------
\* A CkyMap taken alone: the map is the data of the cache, it starts from
\* reload_from_str of a well-formed content, and every step is one call of
\* insert or delete on it; expected is the mapping the calls have built
\* ------------------------------------------------------------------------
MapKeys == { <<96 + i>> : i \in 1..NumMapKeys }

\* format!("{}{}{}{}", key, KEY_VALUE_SEPARATOR, value, TOKEN_SEPARATOR)
MapToken(key, value) == key \o KEY_VALUE_SEPARATOR \o value \o TOKEN_SEPARATOR

MapContents ==
    { <<>>,
      MapToken(<<97>>, <<120>>),
      MapToken(<<97>>, <<120>>) \o MapToken(<<98>>, <<120>>) \o MapToken(<<99>>, <<120>>) }

MapInit ==
    /\ max_file_size_kb = LargeFileSize
    /\ \E content \in MapContents :
           /\ Holds([StoreLoad(Blank(max_file_size_kb)).s EXCEPT
                       !.cache = CacheNew(content, <<48>>, <<48>>)])
           /\ expected = CkyMapFrom(content).inner_map
    /\ Connected
    /\ ops = 0
    /\ crashed = FALSE
    /\ last = Call("reload", <<>>, <<>>, "ok", <<>>, FALSE)
    /\ rolls = 0
    /\ only_new_sets = TRUE
    /\ deleted = {}
    /\ before = [k \in Keys |-> <<"notfound", <<>>>>]

\* what a call on the map leaves alone
MapFrame ==
    UNCHANGED <<index, memtable, data_files, current_log_file, current_log_file_path,
                diskVars, max_file_size_kb, clock, crashed, rolls, only_new_sets,
                deleted, before, threadVars>>

\* CkyMap::insert
MapInsert(key, value) ==
    /\ ops < MaxMapOps
    /\ \E r \in {CkyMapInsert(cache.data, key, value)} :
           /\ cache' = [cache EXCEPT !.data = r.m]
           /\ last' = Call("insert", key, value, r.status,
                           IF key \in DOMAIN cache.data.inner_map
                           THEN cache.data.inner_map[key] ELSE <<>>,
                           key \notin DOMAIN cache.data.inner_map)
    /\ expected' = Put(expected, key, value)
    /\ ops' = ops + 1
    /\ MapFrame

\* CkyMap::delete
MapDelete(key) ==
    /\ ops < MaxMapOps
    /\ \E r \in {CkyMapDelete(cache.data, key)} :
           /\ cache' = [cache EXCEPT !.data = r.m]
           /\ last' = Call("delete", key, <<>>, r.status,
                           IF key \in DOMAIN cache.data.inner_map
                           THEN cache.data.inner_map[key] ELSE <<>>,
                           FALSE)
    /\ expected' = Drop(expected, key)
    /\ ops' = ops + 1
    /\ MapFrame

MapNext ==
    \/ \E key \in MapKeys, value \in Values : MapInsert(key, value)
    \/ \E key \in MapKeys : MapDelete(key)

MapSpec == MapInit /\ [][MapNext]_vars

\* the offset of key is the byte position of a token of key in the blob
OffsetAtToken(m, key) ==
    /\ key \in DOMAIN m.offsets
    /\ m.offsets[key] + Len(key) + KEY_VALUE_SEPARATOR_LENGTH <= Len(m.kv_string)
    /\ Slice(m.kv_string, m.offsets[key],
             m.offsets[key] + Len(key) + KEY_VALUE_SEPARATOR_LENGTH)
         = key \o KEY_VALUE_SEPARATOR
    /\ \/ m.offsets[key] = 0
       \/ /\ m.offsets[key] >= TOKEN_SEPARATOR_LENGTH
          /\ Slice(m.kv_string, m.offsets[key] - TOKEN_SEPARATOR_LENGTH, m.offsets[key])
               = TOKEN_SEPARATOR

\* C23: after insert replaced the value of an existing key by a value of
\* another length, the offset of every other key is the byte position of
\* its token in the blob, and get returns the value of every other key
InsertShiftsLaterOffsets ==
    (/\ last.op = "insert"
     /\ ~last.is_new
     /\ Len(last.value) # Len(last.ret))
      => \A k \in DOMAIN expected \ {last.key} :
            /\ OffsetAtToken(cache.data, k)
            /\ CkyMapGet(cache.data, k) = [status |-> "ok", value |-> expected[k]]

\* the blob of m is the concatenation of the tokens of the entries of its
\* mapping, in some order
BlobOfEntries(m) ==
    LET n == Cardinality(DOMAIN m.inner_map)
    IN  \E q \in [1..n -> DOMAIN m.inner_map] :
           /\ \A i, j \in 1..n : q[i] = q[j] => i = j
           /\ m.kv_string = JoinTokens([i \in 1..n |->
                                q[i] \o KEY_VALUE_SEPARATOR \o m.inner_map[q[i]]])

\* C24: after any calls of insert and delete on a CkyMap the blob is the
\* concatenation of the tokens of its entries, the offset of every key is
\* the byte position of its token, and reloading the blob gives the same
\* mapping and the same offsets
MapMatchesBlob ==
    last.op \in {"reload", "insert", "delete"} =>
        /\ cache.data.inner_map = expected
        /\ BlobOfEntries(cache.data)
        /\ DOMAIN cache.data.offsets = DOMAIN cache.data.inner_map
        /\ \A k \in DOMAIN cache.data.inner_map : OffsetAtToken(cache.data, k)
        /\ CkyMapFrom(cache.data.kv_string) = cache.data

\* C25: a set that wrote the memtable rolls the log file exactly when the
\* size of the written log file is >= max_file_size_kb: the file becomes
\* the .cky file of the same base name with the same content, the memtable
\* is emptied, the base name is added to data_files and a new empty log
\* file of a greater name is the current one; otherwise none of this changes
RollExactlyAtThreshold ==
    [][(/\ last'.op = "set"
        /\ ops' = ops + 1
        /\ last'.status = "ok"
        /\ StrLe(current_log_file, index'[last'.key]))
         => LET old == current_log_file
                written == TokenizedStringInsert(memtable, index'[last'.key],
                                                 last'.value).t.kv_string
            IN  IF Len(written) >= max_file_size_kb
                THEN /\ old \notin DOMAIN log_files'
                     /\ old \in DOMAIN cky_files'
                     /\ cky_files'[old] = written
                     /\ \A f \in DOMAIN cky_files : cky_files'[f] = cky_files[f]
                     /\ memtable' = TokenizedStringDefault
                     /\ data_files' = Append(data_files, old)
                     /\ StrLt(old, current_log_file')
                     /\ log_files' = (current_log_file' :> <<>>)
                ELSE /\ log_files' = (old :> written)
                     /\ cky_files' = cky_files
                     /\ memtable'.kv_string = written
                     /\ data_files' = data_files
                     /\ current_log_file' = old]_vars

\* the set of a new key made the log file exactly as big as the threshold
\* and it was rolled
RollExactlyAtThresholdWitness ==
    /\ last.op = "set"
    /\ last.status = "ok"
    /\ last.is_new
    /\ memtable = TokenizedStringDefault
    /\ data_files # <<>>
    /\ Len(cky_files[data_files[Len(data_files)]]) = max_file_size_kb
    /\ log_files = (current_log_file :> <<>>)

\* ------------------------------------------------------------------------
\* connect() on the folder of a database from which some .cky files have
\* been removed: the segments left have some of the names SegmentNames, the
\* log file LogName is empty, and the index file gives every key a
\* timestamped key older than the log file, whose pair is in the segment of
\* the greatest name <= it when one is left
\* ------------------------------------------------------------------------
SegmentNames == { to_string(c) : c \in (StartClock + 1)..(MaxClock - 1) }
LogName == to_string(MaxClock)
OldTimestamps == { to_string(c) : c \in StartClock..(MaxClock - 1) }

\* the folder with the segments segs and the index entries tks
Folder(segs, tks) ==
    LET Home(k) == { f \in segs : /\ StrLe(f, tks[k])
                                  /\ \A g \in segs : StrLe(g, tks[k]) => StrLe(g, f) }
        Content(f) ==
            JoinTokens([i \in 1..Len(SortStrings({ tks[k] : k \in { x \in Keys : f \in Home(x) } }))
                          |-> SortStrings({ tks[k] : k \in { x \in Keys : f \in Home(x) } })[i]
                                \o KEY_VALUE_SEPARATOR \o <<120>>])
    IN  [Blank(LargeFileSize) EXCEPT
           !.clock = MaxClock + 1,
           !.log_files = (LogName :> <<>>),
           !.cky_files = [f \in segs |-> Content(f)],
           !.index_file = JoinTokens([i \in 1..Len(SortStrings(Keys)) |->
                              SortStrings(Keys)[i] \o KEY_VALUE_SEPARATOR
                                \o tks[SortStrings(Keys)[i]]])]

FolderInit ==
    /\ max_file_size_kb = LargeFileSize
    /\ \E segs \in SUBSET SegmentNames, ts \in [Keys -> OldTimestamps] :
           Holds(StoreLoad(Folder(segs, [k \in Keys |-> TimestampedKey(ts[k], k)])).s)
    /\ Connected
    /\ ops = 0
    /\ crashed = FALSE
    /\ last = Call("connect", <<>>, <<>>, "ok", <<>>, FALSE)
    /\ rolls = 0
    /\ only_new_sets = FALSE
    /\ deleted = {}
    /\ expected = [k \in Keys |-> <<120>>]
    /\ before = [k \in Keys |-> GetResult(k)]

FolderNext ==
    \/ \E key \in Keys : Get(key)
    \/ \E key \in Keys, value \in Values : Set(key, value)

FolderSpec == FolderInit /\ [][FolderNext]_vars

\* C26: a get or set that has to load the cache for a timestamped key older
\* than the log file gets the range from the greatest entry of data_files
\* that is <= the key to the entry after it, or to current_log_file; when
\* no entry is <= the key there is no range, the call fails as corrupted
\* and the cache is not loaded
RangeIsOfGreatestEntryBelow ==
    [][(/\ last'.op \in {"get", "set"}
        /\ ops' = ops + 1
        /\ last'.key \in DOMAIN index
        /\ StrLt(index[last'.key], current_log_file)
        /\ ~IsInRange(cache, index[last'.key]))
         => LET tk == index[last'.key]
                below == { i \in 1..Len(data_files) : StrLe(data_files[i], tk) }
            IN  IF below = {}
                THEN /\ get_timestamp_range_for_key(Cur, tk) = <<>>
                     /\ last'.status = "corrupted"
                     /\ cache' = cache
                ELSE LET i == CHOOSE j \in below : \A h \in below : h <= j
                         next == IF i < Len(data_files) THEN data_files[i + 1]
                                 ELSE current_log_file
                     IN  /\ get_timestamp_range_for_key(Cur, tk) = <<data_files[i], next>>
                         /\ cache'.start = data_files[i]
                         /\ cache'.end = next]_vars

\* ------------------------------------------------------------------------
\* A Cache taken alone: the empty cache or a cache of an empty content with
\* bounds among CacheBounds, and every step is one call of is_in_range
\* ------------------------------------------------------------------------
CacheBounds == { <<48>> } \cup { to_string(c) : c \in StartClock..MaxClock }

CacheKeys ==
    CacheBounds \cup { TimestampedKey(b, k) : b \in CacheBounds, k \in Keys }

CacheInit ==
    /\ max_file_size_kb = LargeFileSize
    /\ \E c \in {CacheNewEmpty}
                  \cup { CacheNew(<<>>, b, e) : b \in CacheBounds, e \in CacheBounds } :
           Holds([StoreLoad(Blank(max_file_size_kb)).s EXCEPT !.cache = c])
    /\ Connected
    /\ ops = 0
    /\ crashed = FALSE
    /\ last = Call("new", <<>>, <<>>, "ok", <<>>, FALSE)
    /\ rolls = 0
    /\ only_new_sets = TRUE
    /\ deleted = {}
    /\ expected = EmptyMap
    /\ before = [k \in Keys |-> <<"notfound", <<>>>>]

\* Cache::is_in_range
CacheIsInRange(key) ==
    /\ last' = Call("is_in_range", key, <<>>, "ok", <<IsInRange(cache, key)>>, FALSE)
    /\ UNCHANGED <<storeVars, diskVars, max_file_size_kb, clock, crashed, rolls,
                   only_new_sets, deleted, expected, before, ops, threadVars>>

CacheNext == \E key \in CacheKeys : CacheIsInRange(key)

CacheSpec == CacheInit /\ [][CacheNext]_vars

WithoutFiles(s) ==
    [s EXCEPT !.log_files = EmptyMap, !.del_file = <<>>, !.cky_files = EmptyMap,
              !.index_file = <<>>]

\* C28: a get of a key whose timestamped key is >= current_log_file or in
\* the range of the cache leaves the cache, the memtable, the index and the
\* files as they are, and returns what it returns when no file is left in
\* the folder
GetServedFromMemory ==
    [][(/\ last'.op = "get"
        /\ ops' = ops + 1
        /\ last'.key \in DOMAIN index
        /\ \/ StrLe(current_log_file, index[last'.key])
           \/ IsInRange(cache, index[last'.key]))
         => /\ cache' = cache
            /\ memtable' = memtable
            /\ index' = index
            /\ UNCHANGED diskVars
            /\ \E r \in {StoreGet(WithoutFiles(Cur), last'.key)} :
                   /\ last'.status = r.status
                   /\ last'.ret = r.value
                   /\ r.s = WithoutFiles(Cur)]_vars

\* a get returned the value of a key of the cached segment, and the cache
\* is not what a load of the .cky file gives: the get did not load it
GetServedFromMemoryWitness ==
    /\ last.op = "get"
    /\ last.status = "ok"
    /\ last.key \in DOMAIN index
    /\ last.key \in DOMAIN expected
    /\ last.ret = expected[last.key]
    /\ StrLt(index[last.key], current_log_file)
    /\ IsInRange(cache, index[last.key])
    /\ cache.start \in DOMAIN cky_files
    /\ cache.data # CkyMapFrom(cky_files[cache.start])

\* C29: a successful set of a key whose timestamped key is older than
\* current_log_file leaves the .cky file of its segment equal to the
\* serialized cache, with the one token of the key carrying the new value
\* and every other token as it was, and leaves the memtable, the log file
\* and data_files unchanged
CachedSetRewritesSegment ==
    [][(/\ last'.op = "set"
        /\ ops' = ops + 1
        /\ last'.status = "ok"
        /\ last'.key \in DOMAIN index
        /\ StrLt(index[last'.key], current_log_file))
         => LET tk == index[last'.key]
                Rewritten(f, old) ==
                    /\ cky_files'[f] = cache'.data.kv_string
                    /\ cache'.start = f
                    /\ Cardinality({ i \in 1..Len(old) : TokenKey(old[i]) = tk }) = 1
                    /\ extract_tokens_from_str(cky_files'[f])
                         = [i \in 1..Len(old) |->
                              IF TokenKey(old[i]) = tk
                              THEN tk \o KEY_VALUE_SEPARATOR \o last'.value
                              ELSE old[i]]
                    /\ cky_files'[f]
                         = JoinTokens(extract_tokens_from_str(cky_files'[f]))
                    /\ \A g \in DOMAIN cky_files \ {f} : cky_files'[g] = cky_files[g]
            IN  /\ \E f \in SegmentsHolding(tk) :
                       Rewritten(f, extract_tokens_from_str(cky_files[f]))
                /\ DOMAIN cky_files' = DOMAIN cky_files
                /\ memtable' = memtable
                /\ log_files' = log_files
                /\ data_files' = data_files
                /\ current_log_file' = current_log_file]_vars

\* the timestamped keys that the memtable t has an entry for
MemtableKeys(t) ==
    { KeyAt(t, i) : i \in { j \in 1..Len(t.offsets) : OffsetValid(t, j) } }
      \cup { TokenKey(token) : token \in Range(extract_tokens_from_str(t.kv_string)) }

\* C30: after a load the tombstone file is empty, and no timestamped key
\* that was in it when the load started is in the memtable, in the log file
\* or in a .cky file
LoadVacuumsFirst ==
    [][(/\ last'.op = "connect"
        /\ ops' = ops + 1
        /\ last'.status = "ok")
         => /\ del_file' = <<>>
            /\ \A tk \in Range(get_keys_to_delete(Cur)) :
                  /\ tk \notin MemtableKeys(memtable')
                  /\ \A f \in DOMAIN log_files' :
                        \A token \in Range(extract_tokens_from_str(log_files'[f])) :
                            TokenKey(token) # tk
                  /\ SegmentsHolding(tk)' = {}]_vars

\* the three calls so far were a set, the delete of its key and the load:
\* the tombstone file held the timestamped key when the load started
LoadVacuumsFirstWitness ==
    /\ last.op = "connect"
    /\ last.status = "ok"
    /\ ops = 3
    /\ deleted # {}
    /\ index = EmptyMap
    /\ del_file = <<>>

\* C31: when a compaction cycle ends the vacuum thread is back at the top
\* of its loop with wait = 0, so that it sleeps number_of_waits times
\* before the next cycle as it did before the first
CycleZeroesWait ==
    [][(cpc \in InCycle /\ cpc' = "recv") => wait' = 0]_vars

\* ------------------------------------------------------------------------
\* The two threads with I/O errors in shadow_store.vacuum(): the read of
\* the delete file, the listing of the folder, the read or the write of a
\* file, or the write of the delete file returns an error, vacuum() returns
\* it, and the thread prints it and goes on
\* ------------------------------------------------------------------------
VacuumFails ==
    /\ cpc \in InCycle
    /\ cpc = "read" => CanLock(del_file_lock.shadow)
    /\ CycleEnds
    /\ UNCHANGED <<dataVars, is_open, tasks, chan, upc, call>>

ThreadsFaultNext ==
    \/ ThreadsNext
    \/ VacuumFails

ThreadsFaultSpec == Init /\ [][ThreadsFaultNext]_vars

\* the files a complete cycle without error leaves when run on the folder
DiskOf(s) == <<s.index_file, s.del_file, s.log_files, s.cky_files>>

AfterVacuum == DiskOf(unlocked_vacuum(Cur))

\* C32: a compaction cycle, also one that an I/O error ends, leaves the
\* vacuum thread at the top of its loop with mut_lock free, and every step
\* of a cycle keeps what a complete cycle makes of the folder: the cycle
\* that follows a failed one ends in the files of a single complete cycle
FailedCycleIsRepeated ==
    [][(cpc \in InCycle) =>
          (/\ cpc' \in InCycle \cup {"recv"}
           /\ AfterVacuum' = AfterVacuum
           /\ cpc' = "recv" =>
                 (/\ mut_lock' = "free"
                  /\ del_file_lock'.shadow = "free"
                  /\ keys_to_delete' = <<>>
                  /\ files_to_vacuum' = {}
                  /\ wait' <= number_of_waits))]_vars

\* a cycle was ended by an error after it had rewritten the files: a
\* timestamped key is still in the delete file and in no file any more
FailedCycleIsRepeatedWitness ==
    /\ cpc = "recv"
    /\ mut_lock = "free"
    /\ \E tk \in TimestampedKeys : Tombstoned(tk) /\ ~OnDisk(tk)

\* C33: a close() that has sent Signal::Stop returns, with the vacuum
\* thread ended, wherever the thread was when the signal was sent; close()
\* on an engine that is not open returns at once and sends nothing
CloseTerminates ==
    /\ (upc = "closing") ~> (upc = "idle" /\ cpc = "finished" /\ last.op = "close")
    /\ [][(call'.op = "close" /\ ops' = ops + 1 /\ ~is_open)
             => (upc' = "idle" /\ chan' = chan /\ last'.op = "close"
                 /\ last'.status = "ok")]_vars

\* Signal::Stop was sent while the vacuum thread was in a cycle
CloseTerminatesWitness ==
    /\ upc = "closing"
    /\ chan > 0
    /\ cpc = "files"
    /\ mut_lock = "vacuum"

\* ------------------------------------------------------------------------
\* cky_vector.rs: CkyVector
\*   v = [offsets (of the items), k_string, inner_vector (the items)]
\* indices are those of Rust, from 0
\* ------------------------------------------------------------------------
\* CkyVector::reload_from_str
CkyVectorFrom(content) ==
    LET Tokens(trimmed, toks) ==
            [offsets |-> [i \in 1..Len(toks) |-> toks[i][1]],
             k_string |-> content,
             inner_vector |-> [i \in 1..Len(toks) |->
                                  Slice(trimmed, toks[i][1], toks[i][2])]]
        From(trimmed) ==
            IF trimmed = <<>>
            THEN [offsets |-> <<>>, k_string |-> content, inner_vector |-> <<>>]
            ELSE Tokens(trimmed, SplitRanges(trimmed, TOKEN_SEPARATOR))
    IN  From(TrimEndMatches(content, TOKEN_SEPARATOR))

\* CkyVector::push
CkyVectorPush(v, value) ==
    [offsets |-> Append(v.offsets, Len(v.k_string)),
     k_string |-> v.k_string \o value \o TOKEN_SEPARATOR,
     inner_vector |-> Append(v.inner_vector, value)]

\* a sequence without its entry at the Rust index i
RemoveAt(q, i) == SubSeq(q, 1, i) \o SubSeq(q, i + 2, Len(q))

\* CkyVector::shift_offsets (the sum is never negative in a vector whose
\* offsets are those of its items)
shift_offsets(offsets, from, delta) ==
    [j \in 1..Len(offsets) |-> IF j - 1 >= from THEN offsets[j] + delta ELSE offsets[j]]

\* CkyVector::remove without its call of shift_offsets
CkyVectorRemoveWithoutShift(v, i) ==
    IF i < Len(v.inner_vector)
    THEN LET old_value == v.inner_vector[i + 1]
             start == v.offsets[i + 1]
             end == start + Len(old_value) + TOKEN_SEPARATOR_LENGTH
         IN  IF end > Len(v.k_string)
             THEN [t |-> [v EXCEPT !.inner_vector = RemoveAt(v.inner_vector, i)],
                   status |-> "corrupted", value |-> <<>>]
             ELSE [t |-> [offsets |-> RemoveAt(v.offsets, i),
                          k_string |-> ReplaceRange(v.k_string, start, end, <<>>),
                          inner_vector |-> RemoveAt(v.inner_vector, i)],
                   status |-> "ok", value |-> old_value]
    ELSE [t |-> v, status |-> "notfound", value |-> <<>>]

\* CkyVector::remove: the item leaves inner_vector before the blob is cut
CkyVectorRemove(v, i) ==
    IF i < Len(v.inner_vector)
    THEN LET old_value == v.inner_vector[i + 1]
             start == v.offsets[i + 1]
             end == start + Len(old_value) + TOKEN_SEPARATOR_LENGTH
         IN  IF end > Len(v.k_string)
             THEN [t |-> [v EXCEPT !.inner_vector = RemoveAt(v.inner_vector, i)],
                   status |-> "corrupted", value |-> <<>>]
             ELSE [t |-> [offsets |-> shift_offsets(RemoveAt(v.offsets, i), i, start - end),
                          k_string |-> ReplaceRange(v.k_string, start, end, <<>>),
                          inner_vector |-> RemoveAt(v.inner_vector, i)],
                   status |-> "ok", value |-> old_value]
    ELSE [t |-> v, status |-> "notfound", value |-> <<>>]

\* CkyVector::remove_many from its i-th index on (indices[i] - i cannot
\* underflow when the indices ascend); value is old_values
RECURSIVE remove_many_from(_, _, _, _)
remove_many_from(v, indices, i, old_values) ==
    IF i >= Len(indices)
    THEN [t |-> v, status |-> "ok", value |-> old_values]
    ELSE LET Removed(r) ==
                 IF r.status # "ok" THEN [t |-> r.t, status |-> r.status, value |-> <<>>]
                 ELSE remove_many_from(r.t, indices, i + 1, Append(old_values, r.value))
         IN  Removed(CkyVectorRemove(v, indices[i + 1] - i))

\* CkyVector::remove_many
CkyVectorRemoveMany(v, indices) == remove_many_from(v, indices, 0, <<>>)

\* ------------------------------------------------------------------------
\* A CkyVector taken alone: the vector is kept in the variable memtable, it
\* starts from reload_from_str of a content, and every step is one call of
\* push, remove or remove_many on it; expected is the sequence of items the
\* calls that returned Ok have built
\* ------------------------------------------------------------------------
VecContents ==
    { <<>>,
      <<120>> \o TOKEN_SEPARATOR,
      <<120>> \o TOKEN_SEPARATOR \o <<121, 121>> \o TOKEN_SEPARATOR
        \o <<120>> \o TOKEN_SEPARATOR }

\* the ascending lists of one to three indices
VecIndices ==
    { q \in { <<i>> : i \in 0..MaxVecIndex }
              \cup { <<i, j>> : i \in 0..MaxVecIndex, j \in 0..MaxVecIndex }
              \cup { <<i, j, k>> : i \in 0..MaxVecIndex, j \in 0..MaxVecIndex,
                                   k \in 0..MaxVecIndex } :
          \A i \in 1..(Len(q) - 1) : q[i] < q[i + 1] }

VecInit ==
    /\ max_file_size_kb = LargeFileSize
    /\ \E content \in VecContents :
           /\ Holds([StoreLoad(Blank(max_file_size_kb)).s EXCEPT
                       !.memtable = CkyVectorFrom(content)])
           /\ expected = CkyVectorFrom(content).inner_vector
    /\ Connected
    /\ ops = 0
    /\ crashed = FALSE
    /\ last = Call("reload", <<>>, <<>>, "ok", <<>>, FALSE)
    /\ rolls = 0
    /\ only_new_sets = TRUE
    /\ deleted = {}
    /\ before = [k \in Keys |-> <<"notfound", <<>>>>]

\* what a call on the vector leaves alone
VecFrame ==
    UNCHANGED <<index, cache, data_files, current_log_file, current_log_file_path,
                diskVars, max_file_size_kb, clock, crashed, rolls, only_new_sets,
                deleted, before, threadVars>>

\* q without its entries at the Rust indices of the list up to the first
\* index that is not one of q
WithoutIndices(q, indices) ==
    LET Removed(j) ==
            \E n \in 1..Len(indices) :
                /\ indices[n] = j - 1
                /\ \A h \in 1..n : indices[h] < Len(q)
        F[n \in 0..Len(q)] ==
            IF n = 0 THEN <<>>
            ELSE IF Removed(n) THEN F[n - 1] ELSE Append(F[n - 1], q[n])
    IN  F[Len(q)]

\* CkyVector::push
VecPush(value) ==
    /\ ops < MaxVecOps
    /\ memtable' = CkyVectorPush(memtable, value)
    /\ last' = Call("push", <<>>, value, "ok", <<>>, FALSE)
    /\ expected' = Append(expected, value)
    /\ ops' = ops + 1
    /\ VecFrame

\* CkyVector::remove; the key of the call is the index
VecRemove(i) ==
    /\ ops < MaxVecOps
    /\ \E r \in {CkyVectorRemove(memtable, i)} :
           /\ memtable' = r.t
           /\ last' = Call("remove", <<i>>, <<>>, r.status, r.value, FALSE)
           /\ expected' = IF r.status = "ok" THEN RemoveAt(expected, i) ELSE expected
    /\ ops' = ops + 1
    /\ VecFrame

\* CkyVector::remove_many; the key of the call is the list of indices
VecRemoveMany(indices) ==
    /\ ops < MaxVecOps
    /\ \E r \in {CkyVectorRemoveMany(memtable, indices)} :
           /\ memtable' = r.t
           /\ last' = Call("remove_many", indices, <<>>, r.status, r.value, FALSE)
           /\ expected' = WithoutIndices(expected, indices)
    /\ ops' = ops + 1
    /\ VecFrame

VecNext ==
    \/ \E value \in Values : VecPush(value)
    \/ \E i \in 0..MaxVecIndex : VecRemove(i)
    \/ \E indices \in VecIndices : VecRemoveMany(indices)

VecSpec == VecInit /\ [][VecNext]_vars

\* C34: after any calls of push, remove and remove_many on a CkyVector the
\* blob is the concatenation of every item followed by the token separator,
\* in the order of the items, and the offset of every item is its byte
\* position in the blob
VectorMatchesBlob ==
    last.op \in {"reload", "push", "remove", "remove_many"} =>
        /\ memtable.inner_vector = expected
        /\ memtable.k_string = JoinTokens(memtable.inner_vector)
        /\ Len(memtable.offsets) = Len(memtable.inner_vector)
        /\ \A j \in 1..Len(memtable.inner_vector) :
               memtable.offsets[j] = Len(JoinTokens(SubSeq(memtable.inner_vector, 1, j - 1)))

\* a remove_many has removed two items that had a later item behind them
VectorMatchesBlobWitness ==
    /\ last.op = "remove_many" /\ last.status = "ok"
    /\ Len(last.key) = 2
    /\ last.key[2] - 1 < Len(memtable.inner_vector)

\* C39: a remove_many given ascending indices that returns an error leaves
\* the items, the offsets and the blob of the CkyVector as they were
RemoveManyIsAtomic ==
    [][(last'.op = "remove_many" /\ ops' = ops + 1 /\ last'.status # "ok")
          => memtable' = memtable]_vars

\* C35: a timestamped key that a cycle of the vacuum has removed from the
\* .log and .cky files is not written back to any of them: it is in none
\* of these files after the operation that follows the cycle (the first of
\* the later operations)
VacuumedStaysOffDisk ==
    [][(\A tk \in TimestampedKeys :
           (last.op = "vacuum" /\ tk \in Range(last.ret)) => ~OnDisk(tk)')]_vars

\* C36: after every set, delete or clear that has returned, with Ok or with
\* an error, the index is the mapping that load_index_from_disk reads from
\* the index file
IndexMatchesIndexFile ==
    (last.op \in {"set", "delete", "clear"} /\ ~crashed) =>
        /\ extract_key_values_from_str(index_file).status = "ok"
        /\ extract_key_values_from_str(index_file).map = index

\* C37: the caller and the vacuum thread never wait for each other in a
\* cycle (whoever waits for mut_lock waits for a holder that can go on), and
\* under fair scheduling every call that was started returns and every
\* cycle the vacuum thread has gone for ends
NoCyclicWait ==
    /\ []((upc = "lock" /\ ~CanLock(mut_lock)) =>
             (/\ mut_lock = "vacuum"
              /\ cpc \in InCycle
              /\ cpc = "read" => CanLock(del_file_lock.shadow)))
    /\ []((cpc = "lock" /\ ~CanLock(mut_lock)) =>
             (/\ mut_lock = "user"
              /\ upc = "run"
              /\ call.op = "delete" => CanLock(del_file_lock.main)))
    /\ (upc # "idle") ~> (upc = "idle")
    /\ (cpc \in InCycle \cup {"lock"}) ~> (cpc = "recv")

\* a delete waits for mut_lock while the vacuum thread, in its cycle, holds
\* it together with the lock of the delete file of its store
NoCyclicWaitWitness ==
    /\ upc = "lock" /\ call.op = "delete"
    /\ mut_lock = "vacuum" /\ cpc = "files"
    /\ del_file_lock.shadow = "vacuum"

\* C38: at most one vacuum thread exists: while the engine is not open
\* there is none and the channel is empty, while it is open (and not being
\* closed) there is exactly one and no Stop is pending for it, open() on an
\* open engine spawns nothing, and open() after close() spawns one thread at
\* a time when the former has ended and the channel is empty
OneVacuumThread ==
    /\ [](~is_open => (cpc = "finished" /\ chan = 0 /\ ~tasks.is_some))
    /\ []((is_open /\ upc # "closing") =>
             (/\ cpc # "finished"
              /\ chan = 0
              /\ tasks.is_some /\ tasks.handles = 1))
    /\ [][(call'.op = "open" /\ ops' = ops + 1 /\ is_open) =>
             (cpc' = cpc /\ wait' = wait /\ tasks' = tasks /\ chan' = chan)]_vars
    /\ [][(call'.op = "open" /\ ops' = ops + 1 /\ ~is_open /\ call'.status = "ok") =>
             (/\ cpc = "finished" /\ chan = 0
              /\ cpc' = "recv" /\ chan' = 0
              /\ is_open' /\ tasks'.handles = 1)]_vars

\* the engine was closed and opened again and its new vacuum thread is at
\* the start of its loop: wait is 0 only in a thread that has not yet been
\* through its loop, and the memtable has a timestamped key that is in no
\* file any more, so a vacuum (of the former thread, or of the load() that
\* open() runs when the engine is not open) has run before the spawn
OneVacuumThreadWitness ==
    /\ last.op = "open" /\ last.status = "ok"
    /\ is_open /\ upc = "idle"
    /\ cpc = "recv" /\ wait = 0 /\ chan = 0
    /\ \E tk \in TimestampedKeys :
           tk \in MemtableKeys(memtable) /\ ~OnDisk(tk) /\ ~Tombstoned(tk)

====
